---------------------------- MODULE Spec2Model ----------------------------
(***************************************************************************)
(* Model of the scoring and classification engine of travelpurpose         *)
(* (src/travelpurpose/utils/scoring.py, explainability.py, classifier.py). *)
(*                                                                         *)
(* Numbers.  Python floats are modelled as exact rationals <<n, d>> in     *)
(* lowest terms with d > 0; IEEE-754 rounding of the last bit is not       *)
(* represented.  np.exp and math.log2 are tabulated.                       *)
(* Strings.  A Python str is a sequence of one-character strings, so that  *)
(* len(), lower() and the substring test act on it as they do in Python.   *)
(* Dicts.  A Python dict is a sequence of <<key, value>> pairs with unique *)
(* keys, in insertion order (the order items() iterates in).               *)
(***************************************************************************)
EXTENDS Integers, Sequences, FiniteSets, TLC

VARIABLES pc, frame, ret

vars == <<pc, frame, ret>>

(***************************************************************************)
(* Bounds of the model.                                                    *)
(***************************************************************************)
MaxEvidence == 2
MaxScores == 3
MaxLabels == 2
MaxPurposes == 2
MaxProbs == 3

---------------------------------------------------------------------------
(***************************************************************************)
(* Float arithmetic, as exact rationals.                                   *)
(***************************************************************************)
Abs(n) == IF n < 0 THEN -n ELSE n

RECURSIVE GCD(_, _)
GCD(a, b) == IF b = 0 THEN a ELSE GCD(b, a % b)

Q(n, d) == LET g == GCD(Abs(n), d) IN <<n \div g, d \div g>>

Zero == <<0, 1>>
One == <<1, 1>>

QAdd(a, b) ==
    LET g == GCD(a[2], b[2])
    IN  Q(a[1] * (b[2] \div g) + b[1] * (a[2] \div g), (a[2] \div g) * b[2])

QNeg(a) == <<-a[1], a[2]>>
QSub(a, b) == QAdd(a, QNeg(b))
QMul(a, b) ==
    LET g1 == GCD(Abs(a[1]), b[2])
        g2 == GCD(Abs(b[1]), a[2])
    IN  IF a[1] = 0 \/ b[1] = 0 THEN Zero
        ELSE Q((a[1] \div g1) * (b[1] \div g2), (a[2] \div g2) * (b[2] \div g1))
QDiv(a, b) ==
    IF b[1] > 0 THEN QMul(a, <<b[2], b[1]>>) ELSE QMul(a, <<-b[2], -b[1]>>)
QLt(a, b) == a[1] * b[2] < b[1] * a[2]
QLe(a, b) == a[1] * b[2] <= b[1] * a[2]
QMax2(a, b) == IF QLt(a, b) THEN b ELSE a
QMin2(a, b) == IF QLt(b, a) THEN b ELSE a

RECURSIVE QSum(_)
QSum(s) == IF s = <<>> THEN Zero ELSE QAdd(Head(s), QSum(Tail(s)))

\* np.exp(x) for x <= 0, in thousandths: x is taken to the nearest quarter and
\* the value read from the table of round(1000 * e^(-k/4)); past the table the
\* result has underflowed to 0
ExpTable ==
    <<1000, 779, 607, 472, 368, 287, 223, 174, 135, 105, 82, 64, 50, 39, 30, 24,
      18, 14, 11, 9, 7, 5, 4, 3, 2, 2, 2, 1, 1, 1, 1>>

NpExp(x) ==
    LET k == (8 * (-x[1]) + x[2]) \div (2 * x[2])
    IN  IF k < Len(ExpTable) THEN ExpTable[k + 1] ELSE 0

\* math.log2(x) for x > 0: log2 of the numerator minus log2 of the denominator,
\* each read from the table of round(10000 * log2(k)), k = 1..25
Log2Table ==
    <<0, 10000, 15850, 20000, 23219, 25850, 28074, 30000, 31699, 33219, 34594,
      35850, 37004, 38074, 39069, 40000, 40875, 41699, 42479, 43219, 43923,
      44594, 45236, 45850, 46439>>

MathLog2(x) == Q(Log2Table[x[1]] - Log2Table[x[2]], 10000)

\* max(values) of a non-empty list
RECURSIVE QMaxOf(_)
QMaxOf(s) == IF Len(s) = 1 THEN s[1] ELSE QMax2(s[1], QMaxOf(Tail(s)))

---------------------------------------------------------------------------
(***************************************************************************)
(* Strings and dicts.                                                      *)
(***************************************************************************)
ascii_uppercase ==
    <<"A","B","C","D","E","F","G","H","I","J","K","L","M",
      "N","O","P","Q","R","S","T","U","V","W","X","Y","Z">>
ascii_lowercase ==
    <<"a","b","c","d","e","f","g","h","i","j","k","l","m",
      "n","o","p","q","r","s","t","u","v","w","x","y","z">>

LowerChar(c) ==
    IF \E i \in 1..Len(ascii_uppercase) : ascii_uppercase[i] = c
    THEN ascii_lowercase[CHOOSE i \in 1..Len(ascii_uppercase) : ascii_uppercase[i] = c]
    ELSE c

Lower(s) == [i \in 1..Len(s) |-> LowerChar(s[i])]

\* a in b, for strings
IsSubstring(a, b) ==
    \E i \in 0..(Len(b) - Len(a)) : SubSeq(b, i + 1, i + Len(a)) = a

DictHas(d, k) == \E i \in 1..Len(d) : d[i][1] = k

DictGet(d, k, default) ==
    IF DictHas(d, k)
    THEN d[CHOOSE i \in 1..Len(d) : d[i][1] = k][2]
    ELSE default

\* d[k] = v: an existing key keeps its position, a new key goes last
DictPut(d, k, v) ==
    IF DictHas(d, k)
    THEN [i \in 1..Len(d) |-> IF d[i][1] = k THEN <<k, v>> ELSE d[i]]
    ELSE Append(d, <<k, v>>)

DictKeys(d) == [i \in 1..Len(d) |-> d[i][1]]
DictValues(d) == [i \in 1..Len(d) |-> d[i][2]]
KeySet(d) == {d[i][1] : i \in 1..Len(d)}

\* dict equality in Python ignores insertion order
DictEq(d1, d2) ==
    /\ KeySet(d1) = KeySet(d2)
    /\ \A k \in KeySet(d1) : DictGet(d1, k, Zero) = DictGet(d2, k, Zero)

\* values a dict entry of an input record can hold: a str, None, or no entry
PyStr(s) == [kind |-> "str", val |-> s]
PyNone == [kind |-> "none", val |-> <<>>]
PyMissing == [kind |-> "missing", val |-> <<>>]

\* entry.get(key, default)
PyGet(field, default) == IF field.kind = "missing" THEN PyStr(default) ELSE field

\* the values a call can produce: a returned value or a raised exception
Returned(v) == [raised |-> "", value |-> v]
Raised(e) == [raised |-> e, value |-> <<>>]

---------------------------------------------------------------------------
(***************************************************************************)
(* calculate_tag_weights                                                   *)
(***************************************************************************)
s_wikidata == <<"w","i","k","i","d","a","t","a">>
s_wikipedia == <<"w","i","k","i","p","e","d","i","a">>
s_unesco == <<"u","n","e","s","c","o">>
s_booking == <<"b","o","o","k","i","n","g">>
s_agoda == <<"a","g","o","d","a">>
s_trivago == <<"t","r","i","v","a","g","o">>
s_kayak == <<"k","a","y","a","k">>
s_tripdotcom == <<"t","r","i","p","d","o","t","c","o","m">>
s_skyscanner == <<"s","k","y","s","c","a","n","n","e","r">>

source_weights ==
    << <<s_wikidata, Q(15, 10)>>, <<s_wikipedia, Q(13, 10)>>, <<s_unesco, Q(2, 1)>>,
       <<s_booking, Q(1, 1)>>, <<s_agoda, Q(1, 1)>>, <<s_trivago, Q(9, 10)>>,
       <<s_kayak, Q(9, 10)>>, <<s_tripdotcom, Q(9, 10)>>, <<s_skyscanner, Q(8, 10)>> >>

DefaultSourceWeight == Q(5, 10)

t_jsonld == <<"j","s","o","n","l","d">>
t_meta == <<"m","e","t","a">>
t_heading == <<"h","e","a","d","i","n","g">>

\* lines 50-56 with no evidence type boosted
EvidenceBoostNone(weight, evidence_type) == weight

\* the boost for the evidence type (lines 50-56)
EvidenceBoost(weight, evidence_type) ==
    IF evidence_type.kind = "str" /\ evidence_type.val = t_jsonld
        THEN QMul(weight, Q(12, 10))
    ELSE IF evidence_type.kind = "str" /\ evidence_type.val = t_meta
        THEN QMul(weight, Q(1, 1))
    ELSE IF evidence_type.kind = "str" /\ evidence_type.val = t_heading
        THEN QMul(weight, Q(8, 10))
    ELSE weight

\* .lower() on the value .get() returned: None has no such attribute
EntryRaises(tag_entry) ==
    \/ PyGet(tag_entry.tag, <<>>).kind = "none"
    \/ PyGet(tag_entry.source, <<>>).kind = "none"

\* the loop body with the weight assigned instead of accumulated
WeighEntryOverwrite(tag_weights, tag_entry) ==
    LET tag == Lower(PyGet(tag_entry.tag, <<>>).val)
        source == Lower(PyGet(tag_entry.source, <<>>).val)
        weight == EvidenceBoost(DictGet(source_weights, source, DefaultSourceWeight),
                                PyGet(tag_entry.evidence_type, <<>>))
    IN  IF tag = <<>> THEN tag_weights
        ELSE DictPut(tag_weights, tag, weight)

\* one pass of the loop body (lines 41-58) over tag_weights
WeighEntry(tag_weights, tag_entry) ==
    LET tag == Lower(PyGet(tag_entry.tag, <<>>).val)
        source == Lower(PyGet(tag_entry.source, <<>>).val)
        weight == EvidenceBoost(DictGet(source_weights, source, DefaultSourceWeight),
                                PyGet(tag_entry.evidence_type, <<>>))
    IN  IF tag = <<>> THEN tag_weights
        ELSE DictPut(tag_weights, tag, QAdd(DictGet(tag_weights, tag, Zero), weight))

RECURSIVE WeighLoop(_, _)
WeighLoop(tags, tag_weights) ==
    IF tags = <<>> THEN tag_weights
    ELSE WeighLoop(Tail(tags), WeighEntry(tag_weights, Head(tags)))

calculate_tag_weights(tags) ==
    IF \E i \in 1..Len(tags) : EntryRaises(tags[i])
    THEN Raised("AttributeError")
    ELSE Returned(WeighLoop(tags, <<>>))

---------------------------------------------------------------------------
(***************************************************************************)
(* Inputs of the evidence weighter.                                        *)
(***************************************************************************)
g_spa == <<"s","p","a">>
g_Spa == <<"S","p","a">>
g_blank == <<" ">>
s_Unesco == <<"U","n","e","s","c","o">>

EvidenceRecords ==
    [tag : {PyStr(<<>>), PyStr(g_spa), PyStr(g_Spa), PyStr(g_blank)},
     source : {PyStr(s_Unesco), PyMissing},
     evidence_type : {PyStr(t_jsonld), PyStr(t_meta), PyStr(t_heading), PyMissing}]
    \cup {[tag |-> PyNone, source |-> PyStr(s_Unesco), evidence_type |-> PyMissing],
          [tag |-> PyStr(g_spa), source |-> PyNone, evidence_type |-> PyMissing]}

SeqsUpTo(S, n) == UNION {[1..k -> S] : k \in 0..n}

InitWeights ==
    /\ pc = "ready"
    /\ frame \in [tags : SeqsUpTo(EvidenceRecords, MaxEvidence)]
    /\ ret = Returned(<<>>)

CallTagWeights ==
    /\ pc = "ready"
    /\ ret' = calculate_tag_weights(frame.tags)
    /\ pc' = "done"
    /\ UNCHANGED frame

NextWeights == CallTagWeights

SpecWeights == InitWeights /\ [][NextWeights]_vars

Permuted(s, p) == [i \in 1..Len(s) |-> s[p[i]]]

SameResult(r1, r2) == r1.raised = r2.raised /\ DictEq(r1.value, r2.value)

---------------------------------------------------------------------------
(***************************************************************************)
(* normalize_scores                                                        *)
(***************************************************************************)
\* the softmax with each exponential divided by the largest one, not the sum
SoftmaxByMax(scores) ==
    LET values == DictValues(scores)
        top == QMaxOf(values)
        exp_values == [i \in 1..Len(values) |-> NpExp(QSub(values[i], top))]
    IN  [i \in 1..Len(scores) |-> <<scores[i][1], Q(exp_values[i], 1000)>>]

\* lines 81-84: exp(values - max) / sum of them, zipped with the keys
Softmax(scores) ==
    LET values == DictValues(scores)
        top == QMaxOf(values)
        exp_values == [i \in 1..Len(values) |-> NpExp(QSub(values[i], top))]
        total == QSum([i \in 1..Len(values) |-> <<exp_values[i], 1>>])
    IN  [i \in 1..Len(scores) |-> <<scores[i][1], QDiv(<<exp_values[i], 1>>, total)>>]

\* the function without its np.max(values) == 0 branch
NormalizeNoZeroBranch(scores) ==
    IF scores = <<>> THEN <<>> ELSE Softmax(scores)

normalize_scores(scores) ==
    IF scores = <<>> THEN <<>>
    ELSE IF QMaxOf(DictValues(scores)) = Zero
        THEN [i \in 1..Len(scores) |-> <<scores[i][1], Zero>>]
    ELSE Softmax(scores)

(***************************************************************************)
(* Inputs of the normalizer: raw category scores are sums of positive      *)
(* weights, so never negative.                                             *)
(***************************************************************************)
Labels == {"Business", "Leisure", "Culture_Heritage", "Beach_Resort"}

RawValues == {Zero, Q(1, 2), One, Q(3, 1), Q(1000, 1)}

\* the dicts with at most n keys from K and values from V
Dicts(K, V, n) ==
    {d \in SeqsUpTo(K \X V, n) : \A i, j \in 1..Len(d) : d[i][1] = d[j][1] => i = j}

InitNormalize ==
    /\ pc = "ready"
    /\ frame \in [scores : Dicts(Labels, RawValues, MaxScores)]
    /\ ret = Returned(<<>>)

CallNormalize ==
    /\ pc = "ready"
    /\ ret' = Returned(normalize_scores(frame.scores))
    /\ pc' = "done"
    /\ UNCHANGED frame

NextNormalize == CallNormalize

SpecNormalize == InitNormalize /\ [][NextNormalize]_vars

AllZero(scores) == \A i \in 1..Len(scores) : scores[i][2] = Zero

\* C2: for every non-empty score map that is not all zero, normalize_scores
\* returns the same keys with values that are all >= 0 and sum to 1 (the
\* arithmetic of the model is exact, so the sum is exactly 1).
C2_SumsToOne ==
    (pc = "done" /\ frame.scores # <<>> /\ ~AllZero(frame.scores)) =>
        /\ DictKeys(ret.value) = DictKeys(frame.scores)
        /\ \A i \in 1..Len(ret.value) : QLe(Zero, ret.value[i][2])
        /\ QSum(DictValues(ret.value)) = One

\* three different positive scores, one of them far below the others
C2_Witness ==
    /\ pc = "done"
    /\ Len(frame.scores) = 3
    /\ DictValues(frame.scores) = <<One, Q(1000, 1), Q(3, 1)>>
    /\ QLt(ret.value[3][2], ret.value[2][2])
    /\ ret.value[1][2] = Zero

\* C3: normalize_scores of the empty map is the empty map, and of a map whose
\* values are all zero it is the same keys each mapped to 0.
C3_Degenerate ==
    pc = "done" =>
        /\ frame.scores = <<>> => ret.value = <<>>
        /\ AllZero(frame.scores) =>
               /\ DictKeys(ret.value) = DictKeys(frame.scores)
               /\ \A i \in 1..Len(ret.value) : ret.value[i][2] = Zero

C3_Witness ==
    /\ pc = "done"
    /\ Len(frame.scores) = 2
    /\ AllZero(frame.scores)
    /\ DictValues(ret.value) = <<Zero, Zero>>



---------------------------------------------------------------------------
(***************************************************************************)
(* select_top_labels                                                       *)
(***************************************************************************)
\* line 137: the items whose score is >= threshold, in the dict's order
RECURSIVE FilterByThreshold(_, _)
FilterByThreshold(items, threshold) ==
    IF items = <<>> THEN <<>>
    ELSE IF QLe(threshold, Head(items)[2])
        THEN <<Head(items)>> \o FilterByThreshold(Tail(items), threshold)
    ELSE FilterByThreshold(Tail(items), threshold)

\* x put into a list sorted by score ascending
RECURSIVE InsertAscending(_, _)
InsertAscending(sorted, x) ==
    IF sorted = <<>> THEN <<x>>
    ELSE IF QLe(Head(sorted)[2], x[2])
        THEN <<Head(sorted)>> \o InsertAscending(Tail(sorted), x)
    ELSE <<x>> \o sorted

\* x put into a list sorted by score descending, behind the items of its score
RECURSIVE InsertDescending(_, _)
InsertDescending(sorted, x) ==
    IF sorted = <<>> THEN <<x>>
    ELSE IF QLe(x[2], Head(sorted)[2])
        THEN <<Head(sorted)>> \o InsertDescending(Tail(sorted), x)
    ELSE <<x>> \o sorted

\* line 140: list.sort(key=score, reverse=True), a stable sort
RECURSIVE SortDescending(_, _)
SortDescending(items, sorted) ==
    IF items = <<>> THEN sorted
    ELSE SortDescending(Tail(items), InsertDescending(sorted, Head(items)))

\* line 143: s[:n], where a negative n counts from the end
SlicePrefix(s, n) ==
    IF n >= 0 THEN SubSeq(s, 1, IF n < Len(s) THEN n ELSE Len(s))
    ELSE SubSeq(s, 1, IF Len(s) + n > 0 THEN Len(s) + n ELSE 0)

select_top_labels(scores, threshold, max_labels) ==
    SlicePrefix(SortDescending(FilterByThreshold(scores, threshold), <<>>), max_labels)

(***************************************************************************)
(* Inputs of the selector.                                                 *)
(***************************************************************************)
NormValues == {Q(1, 20), Q(3, 10), Q(1, 2)}

Thresholds == {Q(-1, 10), Zero, Q(3, 20), Q(3, 10)}

InitSelect ==
    /\ pc = "ready"
    /\ frame \in [scores : Dicts(Labels, NormValues, MaxScores),
                  threshold : Thresholds,
                  max_labels : -1..MaxLabels]
    /\ ret = Returned(<<>>)

CallSelect ==
    /\ pc = "ready"
    /\ ret' = Returned(select_top_labels(frame.scores, frame.threshold, frame.max_labels))
    /\ pc' = "done"
    /\ UNCHANGED frame

NextSelect == CallSelect

SpecSelect == InitSelect /\ [][NextSelect]_vars

InSeq(x, s) == \E i \in 1..Len(s) : s[i] = x

\* C4: for every score map, threshold and max_labels >= 0 the list returned
\* (i) holds only items of the map whose score is >= threshold, (ii) is in
\* non-increasing order of score, (iii) has at most max_labels entries and
\* (iv) leaves out an item that passes the threshold only when max_labels
\* items with scores at least as high are returned.
C4_SelectTopLabels ==
    (pc = "done" /\ frame.max_labels >= 0) =>
        LET top == ret.value IN
        /\ \A i \in 1..Len(top) :
              InSeq(top[i], frame.scores) /\ QLe(frame.threshold, top[i][2])
        /\ \A i, j \in 1..Len(top) : i < j => QLe(top[j][2], top[i][2])
        /\ Len(top) <= frame.max_labels
        /\ \A k \in 1..Len(frame.scores) :
              (QLe(frame.threshold, frame.scores[k][2]) /\ ~InSeq(frame.scores[k], top)) =>
                  /\ Len(top) = frame.max_labels
                  /\ \A i \in 1..Len(top) : QLe(frame.scores[k][2], top[i][2])

\* three items pass the threshold, the two highest are returned in order and
\* the lowest is cut off by max_labels
C4_Witness ==
    /\ pc = "done"
    /\ frame.max_labels = 2
    /\ frame.threshold = Zero
    /\ DictValues(frame.scores) = <<Q(3, 10), Q(1, 20), Q(1, 2)>>
    /\ Len(ret.value) = 2
    /\ ret.value[1][2] = Q(1, 2)
    /\ ret.value[2][2] = Q(3, 10)


---------------------------------------------------------------------------
(***************************************************************************)
(* calculate_confidence                                                    *)
(***************************************************************************)
MainCoefficient == Q(7, 10)
SubCoefficient == Q(3, 10)

\* lines 107-111: 0.7 * main_max + 0.3 * sub_max
WeightedMax(main_scores, sub_scores) ==
    LET main_max == IF main_scores # <<>> THEN QMaxOf(DictValues(main_scores)) ELSE Zero
        sub_max == IF sub_scores # <<>> THEN QMaxOf(DictValues(sub_scores)) ELSE Zero
    IN  QAdd(QMul(MainCoefficient, main_max), QMul(SubCoefficient, sub_max))

\* the two coefficients exchanged
ConfidenceSwapped(main_scores, sub_scores, min_confidence) ==
    LET confidence == WeightedMax(sub_scores, main_scores)
    IN  IF main_scores = <<>> /\ sub_scores = <<>> THEN Zero
        ELSE IF QLt(confidence, min_confidence) THEN Zero
        ELSE QMin2(confidence, One)

\* the minimum threshold not applied
ConfidenceNoFloor(main_scores, sub_scores, min_confidence) ==
    LET confidence == WeightedMax(main_scores, sub_scores)
    IN  IF main_scores = <<>> /\ sub_scores = <<>> THEN Zero
        ELSE QMin2(confidence, One)

\* the minimum threshold applied with <= instead of <
ConfidenceFloorInclusive(main_scores, sub_scores, min_confidence) ==
    LET confidence == WeightedMax(main_scores, sub_scores)
    IN  IF main_scores = <<>> /\ sub_scores = <<>> THEN Zero
        ELSE IF QLe(confidence, min_confidence) THEN Zero
        ELSE QMin2(confidence, One)

calculate_confidence(main_scores, sub_scores, min_confidence) ==
    LET confidence == WeightedMax(main_scores, sub_scores)
    IN  IF main_scores = <<>> /\ sub_scores = <<>> THEN Zero
        ELSE IF QLt(confidence, min_confidence) THEN Zero
        ELSE QMin2(confidence, One)

(***************************************************************************)
(* Inputs of the confidence estimator.                                     *)
(***************************************************************************)
MainKeys == {"Business", "Leisure"}
SubKeys == {"Spa_Wellness"}

ConfValues == {Zero, Q(1, 10), Q(1, 2), One, Q(3, 2)}

Floors == {Zero, Q(1, 10), Q(1, 5), Q(1, 2), One}

MainDicts == Dicts(MainKeys, ConfValues, MaxLabels)

InitConfidence ==
    /\ pc = "ready"
    /\ frame \in [main_scores : MainDicts,
                  sub_scores : Dicts(SubKeys, ConfValues, MaxLabels),
                  min_confidence : Floors]
    /\ ret = Returned(Zero)

CallConfidence ==
    /\ pc = "ready"
    /\ ret' = Returned(calculate_confidence(frame.main_scores, frame.sub_scores,
                                            frame.min_confidence))
    /\ pc' = "done"
    /\ UNCHANGED frame

NextConfidence == CallConfidence

SpecConfidence == InitConfidence /\ [][NextConfidence]_vars

InUnit(x) == QLe(Zero, x) /\ QLe(x, One)

ValuesInUnit(d) == \A i \in 1..Len(d) : InUnit(d[i][2])

\* the largest value of a map, 0 for the empty map
MaxOrZero(d) ==
    IF d = <<>> THEN Zero
    ELSE LET S == {d[i][2] : i \in 1..Len(d)}
         IN  CHOOSE v \in S : \A w \in S : QLe(w, v)

\* 0.7 * max(main, default 0) + 0.3 * max(sub, default 0)
Formula(main, sub) ==
    QAdd(QMul(Q(7, 10), MaxOrZero(main)), QMul(Q(3, 10), MaxOrZero(sub)))

\* C5: for main and sub maps with values in [0,1] and a floor in [0,1],
\* calculate_confidence is in [0,1]; it is 0 when both maps are empty, and
\* otherwise, when the formula's value is not below the floor, it is
\* min(0.7*max(main) + 0.3*max(sub), 1).
C5_ConfidenceValue ==
    (/\ pc = "done"
     /\ ValuesInUnit(frame.main_scores)
     /\ ValuesInUnit(frame.sub_scores)
     /\ InUnit(frame.min_confidence)) =>
        LET f == Formula(frame.main_scores, frame.sub_scores) IN
        /\ InUnit(ret.value)
        /\ (frame.main_scores = <<>> /\ frame.sub_scores = <<>>) => ret.value = Zero
        /\ (~(frame.main_scores = <<>> /\ frame.sub_scores = <<>>)
              /\ ~QLt(f, frame.min_confidence)) => ret.value = QMin2(f, One)

\* main {0.5, 0.1}, sub {0.5}, floor 0.1: 0.7*0.5 + 0.3*0.5 = 0.5
C5_Witness ==
    /\ pc = "done"
    /\ DictValues(frame.main_scores) = <<Q(1, 2), Q(1, 10)>>
    /\ DictValues(frame.sub_scores) = <<Q(1, 2)>>
    /\ frame.min_confidence = Q(1, 10)
    /\ ret.value = Q(1, 2)

\* C6: whenever 0.7*max(main) + 0.3*max(sub) is strictly below the floor the
\* result is exactly 0, and no result lies strictly between 0 and the floor.
C6_FloorCliff ==
    pc = "done" =>
        /\ QLt(Formula(frame.main_scores, frame.sub_scores), frame.min_confidence)
              => ret.value = Zero
        /\ ~(QLt(Zero, ret.value) /\ QLt(ret.value, frame.min_confidence))

\* confidence({"Business": 0.1}, {}, floor 0.2): 0.07 is below the floor
C6_Witness ==
    /\ pc = "done"
    /\ DictValues(frame.main_scores) = <<Q(1, 10)>>
    /\ frame.sub_scores = <<>>
    /\ frame.min_confidence = Q(1, 5)
    /\ ret.value = Zero

\* C7 as stated: with sub_scores and the floor fixed, a larger maximum of
\* main_scores gives a strictly larger confidence whenever the larger result
\* is not clamped at 1.
C7_StrictlyMonotone ==
    (pc = "done" /\ frame.main_scores # <<>>) =>
        \A m2 \in MainDicts :
            (/\ m2 # <<>>
             /\ QLt(MaxOrZero(frame.main_scores), MaxOrZero(m2))
             /\ QLe(Formula(m2, frame.sub_scores), One)) =>
                QLt(ret.value,
                    calculate_confidence(m2, frame.sub_scores, frame.min_confidence))

\* C7 amended: with sub_scores and the floor fixed, a larger maximum of
\* main_scores gives a strictly larger confidence whenever the larger result
\* is not clamped at 1 and its formula value is not below the floor.
C7_MonotoneAboveFloor ==
    (pc = "done" /\ frame.main_scores # <<>>) =>
        \A m2 \in MainDicts :
            (/\ m2 # <<>>
             /\ QLt(MaxOrZero(frame.main_scores), MaxOrZero(m2))
             /\ QLe(Formula(m2, frame.sub_scores), One)
             /\ QLe(frame.min_confidence, Formula(m2, frame.sub_scores))) =>
                QLt(ret.value,
                    calculate_confidence(m2, frame.sub_scores, frame.min_confidence))

\* the call on main max 0.1 with floor 0.5 returned 0, while main max 1 with
\* the same sub_scores and floor gives 0.7
C7_Witness ==
    /\ pc = "done"
    /\ DictValues(frame.main_scores) = <<Q(1, 10)>>
    /\ frame.sub_scores = <<>>
    /\ frame.min_confidence = Q(1, 2)
    /\ ret.value = Zero
    /\ calculate_confidence(<<<<"Business", One>>>>, <<>>, Q(1, 2)) = Q(7, 10)


---------------------------------------------------------------------------
(***************************************************************************)
(* merge_nbd_purposes                                                      *)
(*                                                                         *)
(* A mapping entry is [main |-> list, sub |-> list]; an entry without a    *)
(* "main" or "sub" key reads as the empty list through .get(key, []), so   *)
(* {} is the entry with two empty lists.                                   *)
(***************************************************************************)
EmptyEntry == [main |-> <<>>, sub |-> <<>>]

\* lines 222-223 and 226-227 with scores[cat] = nbd_weight
RECURSIVE AssignToEach(_, _, _)
AssignToEach(scores, cats, nbd_weight) ==
    IF cats = <<>> THEN scores
    ELSE AssignToEach(DictPut(scores, Head(cats), nbd_weight), Tail(cats), nbd_weight)

\* lines 222-223 and 226-227: scores[cat] = scores.get(cat, 0.0) + nbd_weight
RECURSIVE AddToEach(_, _, _)
AddToEach(scores, cats, nbd_weight) ==
    IF cats = <<>> THEN scores
    ELSE AddToEach(DictPut(scores, Head(cats),
                           QAdd(DictGet(scores, Head(cats), Zero), nbd_weight)),
                   Tail(cats), nbd_weight)

\* the lookup without the DEFAULT entry behind it
MappingOrNothing(nbd_to_main, purpose) ==
    DictGet(nbd_to_main, purpose, EmptyEntry)

\* line 219: nbd_to_main.get(purpose, nbd_to_main.get("DEFAULT", {}))
MappingFor(nbd_to_main, purpose) ==
    DictGet(nbd_to_main, purpose, DictGet(nbd_to_main, "DEFAULT", EmptyEntry))

\* lines 218-227: the loop over the purposes, on the pair of copies
RECURSIVE MergeLoop(_, _, _, _)
MergeLoop(scores, nbd_purposes, nbd_to_main, nbd_weight) ==
    IF nbd_purposes = <<>> THEN scores
    ELSE LET mapping == MappingFor(nbd_to_main, Head(nbd_purposes))
         IN  MergeLoop(<<AddToEach(scores[1], mapping.main, nbd_weight),
                         AddToEach(scores[2], mapping.sub, nbd_weight)>>,
                       Tail(nbd_purposes), nbd_to_main, nbd_weight)

merge_nbd_purposes(main_scores, sub_scores, nbd_purposes, nbd_mapping, nbd_weight) ==
    MergeLoop(<<main_scores, sub_scores>>, nbd_purposes,
              DictGet(nbd_mapping, "nbd_to_main", <<>>), nbd_weight)

(***************************************************************************)
(* Inputs of the merger.                                                   *)
(***************************************************************************)
BusinessEntry == [main |-> <<"Business">>, sub |-> <<"Finance_Hub">>]

NbdMappings ==
    { <<>>,
      << <<"nbd_to_main", << <<"Business trip", BusinessEntry>> >> >> >>,
      << <<"nbd_to_main", << <<"Business trip", BusinessEntry>>,
                             <<"DEFAULT", EmptyEntry>> >> >> >>,
      << <<"nbd_to_main", << <<"Business trip", BusinessEntry>>,
                             <<"DEFAULT", [main |-> <<"Leisure">>,
                                           sub |-> <<"Spa_Wellness">>]>> >> >> >>,
      << <<"nbd_to_main", << <<"DEFAULT", [main |-> <<"Leisure", "Business">>,
                                           sub |-> <<>>]>>,
                             <<"Business trip", BusinessEntry>> >> >> >> }

PurposeLabels == {"Business trip", "Pilgrimage"}

MergeValues == {Q(1, 2), Q(3, 1)}

MergeWeights == {Q(2, 1), Q(1, 2)}

InitMerge ==
    /\ pc = "ready"
    /\ frame \in [main_scores : Dicts(MainKeys, MergeValues, MaxLabels),
                  sub_scores : Dicts(SubKeys, MergeValues, MaxLabels),
                  nbd_purposes : SeqsUpTo(PurposeLabels, MaxPurposes),
                  nbd_mapping : NbdMappings,
                  nbd_weight : MergeWeights]
    /\ ret = Returned(<<<<>>, <<>>>>)

CallMerge ==
    /\ pc = "ready"
    /\ ret' = Returned(merge_nbd_purposes(frame.main_scores, frame.sub_scores,
                                          frame.nbd_purposes, frame.nbd_mapping,
                                          frame.nbd_weight))
    /\ pc' = "done"
    /\ UNCHANGED frame

NextMerge == CallMerge

SpecMerge == InitMerge /\ [][NextMerge]_vars

\* the purpose map of the call, its keys and its DEFAULT entry ({} when absent)
PurposeMap == DictGet(frame.nbd_mapping, "nbd_to_main", <<>>)

Recognized(purpose) == purpose \in KeySet(PurposeMap)

DefaultEntry ==
    IF "DEFAULT" \in KeySet(PurposeMap)
    THEN PurposeMap[CHOOSE i \in 1..Len(PurposeMap) : PurposeMap[i][1] = "DEFAULT"][2]
    ELSE EmptyEntry

Occurrences(x, s) == Cardinality({i \in 1..Len(s) : s[i] = x})

RECURSIVE RecognizedOnly(_)
RecognizedOnly(purposes) ==
    IF purposes = <<>> THEN <<>>
    ELSE IF Recognized(Head(purposes))
        THEN <<Head(purposes)>> \o RecognizedOnly(Tail(purposes))
    ELSE RecognizedOnly(Tail(purposes))

\* what n fallbacks to the list cats add to the map before: n * weight for each
\* occurrence of a category in cats, on its old score or on 0
FallbackAdded(before, after, cats, n) ==
    /\ KeySet(after) = KeySet(before) \cup (IF n > 0 THEN {cats[i] : i \in 1..Len(cats)} ELSE {})
    /\ \A c \in KeySet(after) :
          DictGet(after, c, Zero) =
              QAdd(DictGet(before, c, Zero),
                   QMul(Q(n * Occurrences(c, cats), 1), frame.nbd_weight))

\* C8: every purpose label that is not a key of the purpose mapping adds the
\* merge weight to each main and each sub category of the DEFAULT entry, on top
\* of what the recognized labels of the list add; no exception is raised; and
\* with DEFAULT absent or empty such a label adds nothing.
C8_MergeFallback ==
    pc = "done" =>
        LET n == Cardinality({i \in 1..Len(frame.nbd_purposes) :
                                 ~Recognized(frame.nbd_purposes[i])})
            base == merge_nbd_purposes(frame.main_scores, frame.sub_scores,
                                       RecognizedOnly(frame.nbd_purposes),
                                       frame.nbd_mapping, frame.nbd_weight)
        IN  /\ ret.raised = ""
            /\ FallbackAdded(base[1], ret.value[1], DefaultEntry.main, n)
            /\ FallbackAdded(base[2], ret.value[2], DefaultEntry.sub, n)
            /\ DefaultEntry = EmptyEntry => ret.value = base

\* an unrecognized label with a populated DEFAULT: Leisure goes from 0.5 to 2.5
\* and Spa_Wellness is created at 2.0
C8_Witness ==
    /\ pc = "done"
    /\ frame.nbd_purposes = <<"Pilgrimage">>
    /\ ~Recognized("Pilgrimage")
    /\ DefaultEntry = [main |-> <<"Leisure">>, sub |-> <<"Spa_Wellness">>]
    /\ frame.main_scores = << <<"Leisure", Q(1, 2)>> >>
    /\ frame.sub_scores = <<>>
    /\ frame.nbd_weight = Q(2, 1)
    /\ ret.value = << << <<"Leisure", Q(5, 2)>> >>, << <<"Spa_Wellness", Q(2, 1)>> >> >>


---------------------------------------------------------------------------
(***************************************************************************)
(* ExplainabilityEngine.calculate_ambiguity                                *)
(***************************************************************************)
\* line 42: -sum(p * math.log2(p) for p in probs if p > 0)
RECURSIVE Entropy(_)
Entropy(probs) ==
    IF probs = <<>> THEN Zero
    ELSE IF QLt(Zero, Head(probs))
        THEN QSub(Entropy(Tail(probs)), QMul(Head(probs), MathLog2(Head(probs))))
    ELSE Entropy(Tail(probs))

\* the entropy returned without the division by max_entropy
AmbiguityUnnormalized(probabilities) ==
    IF probabilities = <<>> \/ Len(probabilities) = 1 THEN Zero
    ELSE LET total == QSum(probabilities) IN
         IF QLe(total, Zero) THEN One
         ELSE Entropy([i \in 1..Len(probabilities) |-> QDiv(probabilities[i], total)])

calculate_ambiguity(probabilities) ==
    IF probabilities = <<>> \/ Len(probabilities) = 1 THEN Zero
    ELSE LET total == QSum(probabilities) IN
         IF QLe(total, Zero) THEN One
         ELSE LET probs == [i \in 1..Len(probabilities) |-> QDiv(probabilities[i], total)]
                  entropy == Entropy(probs)
                  max_entropy == MathLog2(<<Len(probs), 1>>)
              IN  IF QLt(Zero, max_entropy) THEN QDiv(entropy, max_entropy) ELSE Zero

(***************************************************************************)
(* Inputs of the ambiguity score: the scores of the selected main labels.  *)
(***************************************************************************)
ProbValues == {Zero, Q(1, 4), Q(1, 2), One}

InitAmbiguity ==
    /\ pc = "ready"
    /\ frame \in [probabilities : SeqsUpTo(ProbValues, MaxProbs)]
    /\ ret = Returned(Zero)

CallAmbiguity ==
    /\ pc = "ready"
    /\ ret' = Returned(calculate_ambiguity(frame.probabilities))
    /\ pc' = "done"
    /\ UNCHANGED frame

NextAmbiguity == CallAmbiguity

SpecAmbiguity == InitAmbiguity /\ [][NextAmbiguity]_vars

Positives(s) == {i \in 1..Len(s) : QLt(Zero, s[i])}

---------------------------------------------------------------------------
(***************************************************************************)
(* aggregate_scores_by_category                                            *)
(*                                                                         *)
(* A taxonomy entry is [keywords |-> list of str, main |-> label, sub |->  *)
(* list of labels]; main is "" when the entry has no (or an empty) "main". *)
(***************************************************************************)
NoMatch == [score |-> Zero, found |-> FALSE,
            config |-> [keywords |-> <<>>, main |-> "", sub |-> <<>>]]

\* line 172: keyword.lower() in tag.lower() or tag.lower() in keyword.lower()
KeywordMatches(keyword, tag) ==
    \/ IsSubstring(Lower(keyword), Lower(tag))
    \/ IsSubstring(Lower(tag), Lower(keyword))

\* line 174: len(keyword) / max(len(keyword), len(tag))
SimilarityScore(keyword, tag) ==
    Q(Len(keyword), IF Len(keyword) > Len(tag) THEN Len(keyword) ELSE Len(tag))

\* lines 171-177 without the substring test of line 172
RECURSIVE ScanKeywordsByLength(_, _, _, _)
ScanKeywordsByLength(tag, mapping_config, keywords, best) ==
    IF keywords = <<>> THEN best
    ELSE LET keyword == Head(keywords)
             score == SimilarityScore(keyword, tag)
         IN  ScanKeywordsByLength(tag, mapping_config, Tail(keywords),
                 IF QLt(best.score, score)
                 THEN [score |-> score, found |-> TRUE, config |-> mapping_config]
                 ELSE best)

\* lines 171-177 with `score >= best_score` for a positive score
RECURSIVE ScanKeywordsLastWins(_, _, _, _)
ScanKeywordsLastWins(tag, mapping_config, keywords, best) ==
    IF keywords = <<>> THEN best
    ELSE LET keyword == Head(keywords)
             score == SimilarityScore(keyword, tag)
         IN  ScanKeywordsLastWins(tag, mapping_config, Tail(keywords),
                 IF KeywordMatches(keyword, tag) /\ QLt(Zero, score)
                    /\ QLe(best.score, score)
                 THEN [score |-> score, found |-> TRUE, config |-> mapping_config]
                 ELSE best)

\* lines 171-177: the keywords of one entry against the best match so far
RECURSIVE ScanKeywords(_, _, _, _)
ScanKeywords(tag, mapping_config, keywords, best) ==
    IF keywords = <<>> THEN best
    ELSE LET keyword == Head(keywords)
             score == SimilarityScore(keyword, tag)
         IN  ScanKeywords(tag, mapping_config, Tail(keywords),
                 IF KeywordMatches(keyword, tag) /\ QLt(best.score, score)
                 THEN [score |-> score, found |-> TRUE, config |-> mapping_config]
                 ELSE best)

\* lines 168-177: the entries of the taxonomy, in the order of tag_mappings.items()
RECURSIVE ScanMappings(_, _, _)
ScanMappings(tag, tag_mappings, best) ==
    IF tag_mappings = <<>> THEN best
    ELSE ScanMappings(tag, Tail(tag_mappings),
             ScanKeywords(tag, Head(tag_mappings)[2], Head(tag_mappings)[2].keywords, best))

\* lines 179-188 with the main category credited in sub_scores
CreditMainAmongSubs(scores, weight, best) ==
    IF ~best.found THEN scores
    ELSE LET credit == QMul(weight, best.score)
             main_cat == best.config.main
         IN  <<scores[1],
               AddToEach(scores[2],
                         IF main_cat # "" THEN <<main_cat>> \o best.config.sub
                         ELSE best.config.sub,
                         credit)>>

\* lines 179-188 with the credit divided among the subcategories
CreditDividedAmongSubs(scores, weight, best) ==
    IF ~best.found THEN scores
    ELSE LET credit == QMul(weight, best.score)
             main_cat == best.config.main
         IN  <<IF main_cat # ""
               THEN DictPut(scores[1], main_cat,
                            QAdd(DictGet(scores[1], main_cat, Zero), credit))
               ELSE scores[1],
               IF best.config.sub = <<>> THEN scores[2]
               ELSE AddToEach(scores[2], best.config.sub,
                              QDiv(credit, Q(Len(best.config.sub), 1)))>>

\* lines 179-188: the winning entry's main category and subcategories credited
Credit(scores, weight, best) ==
    IF ~best.found THEN scores
    ELSE LET credit == QMul(weight, best.score)
             main_cat == best.config.main
         IN  <<IF main_cat # ""
               THEN DictPut(scores[1], main_cat,
                            QAdd(DictGet(scores[1], main_cat, Zero), credit))
               ELSE scores[1],
               AddToEach(scores[2], best.config.sub, credit)>>

\* lines 163-188: the loop over tag_weights.items()
RECURSIVE AggregateLoop(_, _, _)
AggregateLoop(scores, tag_weights, tag_mappings) ==
    IF tag_weights = <<>> THEN scores
    ELSE LET tag == Head(tag_weights)[1]
             weight == Head(tag_weights)[2]
         IN  AggregateLoop(Credit(scores, weight, ScanMappings(tag, tag_mappings, NoMatch)),
                           Tail(tag_weights), tag_mappings)

aggregate_scores_by_category(tag_weights, tag_mappings) ==
    AggregateLoop(<<<<>>, <<>>>>, tag_weights, tag_mappings)

---------------------------------------------------------------------------
(***************************************************************************)
(* TemporalEngine                                                          *)
(***************************************************************************)
PyInt(n) == [kind |-> "int", val |-> n]
NoMonth == [kind |-> "none", val |-> 0]

n_winter == <<"w","i","n","t","e","r">>
n_spring == <<"s","p","r","i","n","g">>
n_summer == <<"s","u","m","m","e","r">>
n_fall == <<"f","a","l","l">>
n_all == <<"a","l","l">>

SEASONS ==
    << <<n_winter, {12, 1, 2}>>, <<n_spring, {3, 4, 5}>>,
       <<n_summer, {6, 7, 8}>>, <<n_fall, {9, 10, 11}>> >>

get_season(month) ==
    IF \E i \in 1..Len(SEASONS) : month \in SEASONS[i][2]
    THEN SEASONS[CHOOSE i \in 1..Len(SEASONS) : month \in SEASONS[i][2]][1]
    ELSE n_all

seasonal_boosts ==
    << <<n_winter, << <<"Winter_Sports", Q(15, 10)>>, <<"Medical_Health", Q(12, 10)>> >> >>,
       <<n_summer, << <<"Beach_Resort", Q(14, 10)>>, <<"Nature_Outdoor", Q(13, 10)>> >> >>,
       <<n_spring, << <<"Nature_Outdoor", Q(12, 10)>>, <<"Event_Festival", Q(11, 10)>> >> >>,
       <<n_fall, << <<"Culture_Heritage", Q(11, 10)>>, <<"Gastronomy", Q(12, 10)>> >> >> >>

\* lines 43-45 with boosted[category] /= boost
RECURSIVE DampEach(_, _)
DampEach(boosted, boosts) ==
    IF boosts = <<>> THEN boosted
    ELSE LET category == Head(boosts)[1] IN
         DampEach(IF DictHas(boosted, category)
                  THEN DictPut(boosted, category,
                               QDiv(DictGet(boosted, category, Zero), Head(boosts)[2]))
                  ELSE boosted,
                  Tail(boosts))

\* lines 43-45: boosted[category] *= boost for the categories present
RECURSIVE BoostEach(_, _)
BoostEach(boosted, boosts) ==
    IF boosts = <<>> THEN boosted
    ELSE LET category == Head(boosts)[1] IN
         BoostEach(IF DictHas(boosted, category)
                   THEN DictPut(boosted, category,
                                QMul(DictGet(boosted, category, Zero), Head(boosts)[2]))
                   ELSE boosted,
                   Tail(boosts))

\* lines 27-52 without the early return of lines 30-31
BoostAlwaysRenormalized(purposes, season, month) ==
    LET used == IF month.kind = "int" /\ month.val # 0
                THEN PyStr(get_season(month.val)) ELSE season
        boosted == BoostEach(purposes, DictGet(seasonal_boosts, used.val, <<>>))
        total == QSum(DictValues(boosted))
    IN  IF QLt(Zero, total)
        THEN [i \in 1..Len(boosted) |-> <<boosted[i][1], QDiv(boosted[i][2], total)>>]
        ELSE boosted

\* lines 27-52 with the month consulted only when no season is given
BoostSeasonFirst(purposes, season, month) ==
    LET used == IF season.kind = "str" /\ season.val # <<>> THEN season
                ELSE IF month.kind = "int" /\ month.val # 0
                     THEN PyStr(get_season(month.val)) ELSE season
    IN  IF used.kind = "none" \/ used.val = <<>> \/ used.val = n_all THEN purposes
        ELSE LET boosted == BoostEach(purposes, DictGet(seasonal_boosts, used.val, <<>>))
                 total == QSum(DictValues(boosted))
             IN  IF QLt(Zero, total)
                 THEN [i \in 1..Len(boosted) |-> <<boosted[i][1], QDiv(boosted[i][2], total)>>]
                 ELSE boosted

apply_seasonal_boost(purposes, season, month) ==
    LET used == IF month.kind = "int" /\ month.val # 0
                THEN PyStr(get_season(month.val)) ELSE season
    IN  IF used.kind = "none" \/ used.val = <<>> \/ used.val = n_all THEN purposes
        ELSE LET boosted == BoostEach(purposes, DictGet(seasonal_boosts, used.val, <<>>))
                 total == QSum(DictValues(boosted))
             IN  IF QLt(Zero, total)
                 THEN [i \in 1..Len(boosted) |-> <<boosted[i][1], QDiv(boosted[i][2], total)>>]
                 ELSE boosted


---------------------------------------------------------------------------
(***************************************************************************)
(* predict_purpose, from the point where the tags and the external         *)
(* purposes of the city are known (classifier.py lines 184-227).  frame    *)
(* holds the locals of the call and the two configuration globals it       *)
(* reads; pc is the statement to run next.                                 *)
(***************************************************************************)
\* round(x, 2), to the nearest hundredth (ties to the even one)
Round2(x) ==
    LET n == x[1] * 100
        f == n \div x[2]
        r == n % x[2]
    IN  Q(IF 2 * r > x[2] \/ (2 * r = x[2] /\ f % 2 = 1) THEN f + 1 ELSE f, 100)

MainThreshold == Q(15, 100)
SubThreshold == Q(10, 100)
MainMaxLabels == 5
SubMaxLabels == 8
DefaultNbdWeight == Q(2, 1)
DefaultMinConfidence == Q(1, 10)

\* lines 184-190: nothing known about the city
CheckNoData ==
    /\ pc = "check"
    /\ IF frame.tags = <<>> /\ frame.nbd_purposes = <<>>
       THEN /\ ret' = Returned([main |-> <<>>, sub |-> <<>>, confidence |-> Zero])
            /\ pc' = "done"
       ELSE /\ ret' = ret
            /\ pc' = "weights"
    /\ UNCHANGED frame

\* line 193
StepTagWeights ==
    /\ pc = "weights"
    /\ LET r == calculate_tag_weights(frame.tags) IN
       IF r.raised # ""
       THEN /\ ret' = r
            /\ pc' = "done"
            /\ UNCHANGED frame
       ELSE /\ frame' = [frame EXCEPT !.tag_weights = r.value]
            /\ pc' = "aggregate"
            /\ UNCHANGED ret

\* lines 196-197
StepAggregate ==
    /\ pc = "aggregate"
    /\ LET r == aggregate_scores_by_category(frame.tag_weights, frame.tag_mappings) IN
       frame' = [frame EXCEPT !.main_scores = r[1], !.sub_scores = r[2]]
    /\ pc' = "merge"
    /\ UNCHANGED ret

\* lines 200-203 with the external purposes left out
StepMergeNothing ==
    /\ pc = "merge"
    /\ pc' = "normalize"
    /\ UNCHANGED <<frame, ret>>

\* lines 200-203
StepMerge ==
    /\ pc = "merge"
    /\ IF frame.nbd_purposes # <<>>
       THEN LET r == merge_nbd_purposes(frame.main_scores, frame.sub_scores,
                                        frame.nbd_purposes, frame.nbd_mapping,
                                        DefaultNbdWeight)
            IN  frame' = [frame EXCEPT !.main_scores = r[1], !.sub_scores = r[2]]
       ELSE frame' = frame
    /\ pc' = "normalize"
    /\ UNCHANGED ret

\* lines 206-207
StepNormalize ==
    /\ pc = "normalize"
    /\ frame' = [frame EXCEPT !.main_scores = normalize_scores(frame.main_scores),
                              !.sub_scores = normalize_scores(frame.sub_scores)]
    /\ pc' = "boost"
    /\ UNCHANGED ret

\* lines 210-214: month or season given (a month of 0 counts as not given)
StepBoost ==
    /\ pc = "boost"
    /\ IF (frame.month.kind = "int" /\ frame.month.val # 0)
          \/ (frame.season.kind = "str" /\ frame.season.val # <<>>)
       THEN frame' = [frame EXCEPT !.main_scores =
                         apply_seasonal_boost(frame.main_scores, frame.season, frame.month)]
       ELSE frame' = frame
    /\ pc' = "confidence"
    /\ UNCHANGED ret

\* line 217
StepConfidence ==
    /\ pc = "confidence"
    /\ frame' = [frame EXCEPT !.confidence =
                    calculate_confidence(frame.main_scores, frame.sub_scores,
                                         DefaultMinConfidence)]
    /\ pc' = "select"
    /\ UNCHANGED ret

\* lines 220-227 and 274, without the explain branch
StepSelect ==
    /\ pc = "select"
    /\ LET top_main == select_top_labels(frame.main_scores, MainThreshold, MainMaxLabels)
           top_sub == select_top_labels(frame.sub_scores, SubThreshold, SubMaxLabels)
       IN  ret' = Returned([main |-> DictKeys(top_main), sub |-> DictKeys(top_sub),
                            confidence |-> Round2(frame.confidence)])
    /\ pc' = "done"
    /\ UNCHANGED frame

(***************************************************************************)
(* Inputs of predict_purpose: the harvested tags, the purpose of the       *)
(* dataset row if any, the month and season arguments, and the loaded      *)
(* configuration.                                                          *)
(***************************************************************************)
g_gym == <<"g","y","m">>
k_s == <<"s">>
k_spa_resort == <<"s","p","a"," ","r","e","s","o","r","t">>

HarvestedTags ==
    [tag : {PyStr(<<>>), PyStr(g_spa), PyStr(g_Spa), PyStr(g_gym)},
     source : {PyStr(s_Unesco), PyMissing},
     evidence_type : {PyStr(t_jsonld)}]

Entry(keywords, main, sub) == [keywords |-> keywords, main |-> main, sub |-> sub]

TagMappings ==
    { <<>>,
      << <<"wellness", Entry(<<g_spa>>, "Leisure", <<"Spa_Wellness">>)>> >>,
      << <<"leisure", Entry(<<g_spa, g_gym>>, "Leisure", <<>>)>> >>,
      << <<"wellness", Entry(<<g_spa>>, "Medical_Health", <<"Spa_Wellness">>)>>,
         <<"leisure", Entry(<<g_gym, g_Spa>>, "Leisure", <<"Fitness">>)>> >>,
      << <<"wellness", Entry(<<g_spa>>, "Leisure", <<>>)>>,
         <<"fitness", Entry(<<g_gym, <<>>>>, "Leisure", <<>>)>> >>,
      << <<"wellness", Entry(<<g_spa>>, "Medical_Health", <<"Spa_Wellness">>)>>,
         <<"fitness", Entry(<<g_gym>>, "Winter_Sports", <<>>)>> >>,
      << <<"short", Entry(<<k_s>>, "Business", <<>>)>>,
         <<"resort", Entry(<<k_spa_resort>>, "Leisure", <<"Spa_Wellness", "Beach_Resort">>)>>,
         <<"nomain", Entry(<<g_gym>>, "", <<"Fitness">>)>> >> }

LoadedNbdMapping ==
    << <<"nbd_to_main", << <<"Business trip", BusinessEntry>>,
                           <<"DEFAULT", [main |-> <<"Leisure">>,
                                         sub |-> <<"Spa_Wellness">>]>> >> >> >>

TemporalArguments ==
    { <<NoMonth, PyNone>>, <<PyInt(1), PyNone>>, <<NoMonth, PyStr(n_summer)>> }

InitPipeline ==
    /\ pc = "check"
    /\ \E tags \in SeqsUpTo(HarvestedTags, MaxEvidence),
          nbd_purposes \in {<<>>} \cup {<<p>> : p \in PurposeLabels},
          t \in TemporalArguments,
          tag_mappings \in TagMappings :
            frame = [tags |-> tags, nbd_purposes |-> nbd_purposes,
                     month |-> t[1], season |-> t[2],
                     tag_mappings |-> tag_mappings, nbd_mapping |-> LoadedNbdMapping,
                     tag_weights |-> <<>>, main_scores |-> <<>>, sub_scores |-> <<>>,
                     confidence |-> Zero]
    /\ ret = Returned([main |-> <<>>, sub |-> <<>>, confidence |-> Zero])

NextPipeline ==
    \/ CheckNoData
    \/ StepTagWeights
    \/ StepAggregate
    \/ StepMerge
    \/ StepNormalize
    \/ StepBoost
    \/ StepConfidence
    \/ StepSelect

SpecPipeline == InitPipeline /\ [][NextPipeline]_vars

\* the taxonomy entries with a non-empty keyword that matches a tag of the evidence
MatchingEntries ==
    {frame.tag_mappings[i][2] : i \in
        {i \in 1..Len(frame.tag_mappings) :
            \E j \in 1..Len(frame.tag_mappings[i][2].keywords),
               n \in 1..Len(frame.tags) :
                 /\ frame.tag_mappings[i][2].keywords[j] # <<>>
                 /\ frame.tags[n].tag.val # <<>>
                 /\ KeywordMatches(frame.tag_mappings[i][2].keywords[j],
                                   frame.tags[n].tag.val)}}

\* C10: when some tag of the evidence matches the taxonomy and every matching
\* entry has one and the same main category and no subcategories, then (no
\* external purpose, no month or season) the normalized main scores are that
\* one category at 1.0, the sub scores are empty and the confidence is 0.7.
C10_SingleCategory ==
    (/\ pc = "done"
     /\ ret.raised = ""
     /\ frame.nbd_purposes = <<>>
     /\ frame.month = NoMonth /\ frame.season = PyNone
     /\ MatchingEntries # {}
     /\ \E m \in Labels : \A e \in MatchingEntries : e.main = m /\ e.sub = <<>>) =>
        /\ Len(frame.main_scores) = 1
        /\ frame.main_scores[1][2] = One
        /\ \A e \in MatchingEntries : frame.main_scores[1][1] = e.main
        /\ frame.sub_scores = <<>>
        /\ frame.confidence = Q(7, 10)
        /\ ret.value.confidence = Q(7, 10)
        /\ ret.value.main = <<frame.main_scores[1][1]>>

\* two tags, matched by two entries of the taxonomy that both name Leisure
C10_Witness ==
    /\ pc = "done"
    /\ Len(frame.tags) = 2
    /\ frame.tags[1].tag = PyStr(g_spa)
    /\ frame.tags[2].tag = PyStr(g_gym)
    /\ frame.nbd_purposes = <<>>
    /\ frame.month = NoMonth /\ frame.season = PyNone
    /\ Cardinality(MatchingEntries) = 2
    /\ Len(frame.tag_weights) = 2
    /\ frame.main_scores = << <<"Leisure", One>> >>
    /\ ret.value = [main |-> <<"Leisure">>, sub |-> <<>>, confidence |-> Q(7, 10)]


EmptyResult == [main |-> <<>>, sub |-> <<>>, confidence |-> Zero]

---------------------------------------------------------------------------
(***************************************************************************)
(* normalize_city_name                                                     *)
(***************************************************************************)
EndsWith(s, suffix) ==
    /\ Len(s) >= Len(suffix)
    /\ SubSeq(s, Len(s) - Len(suffix) + 1, Len(s)) = suffix

suffixes ==
    << <<" ","c","i","t","y">>,
       <<" ","m","e","t","r","o","p","o","l","i","t","a","n">>,
       <<" ","m","e","t","r","o">>,
       <<" ","p","r","o","v","i","n","c","e">>,
       <<" ","r","e","g","i","o","n">> >>

\* lines 29-32: each suffix in turn, on what the earlier ones left
RECURSIVE StripSuffixes(_, _)
StripSuffixes(name, rest) ==
    IF rest = <<>> THEN name
    ELSE StripSuffixes(IF EndsWith(name, Head(rest))
                       THEN SubSeq(name, 1, Len(name) - Len(Head(rest)))
                       ELSE name,
                       Tail(rest))

\* str.split(): the words between runs of blanks
RECURSIVE SplitWords(_, _, _)
SplitWords(s, word, words) ==
    IF s = <<>> THEN (IF word = <<>> THEN words ELSE Append(words, word))
    ELSE IF Head(s) = " "
         THEN SplitWords(Tail(s), <<>>, IF word = <<>> THEN words ELSE Append(words, word))
         ELSE SplitWords(Tail(s), Append(word, Head(s)), words)

\* " ".join(words)
RECURSIVE JoinWords(_)
JoinWords(words) ==
    IF words = <<>> THEN <<>>
    ELSE IF Len(words) = 1 THEN words[1]
    ELSE words[1] \o <<" ">> \o JoinWords(Tail(words))

normalize_city_name(name) ==
    IF name = <<>> THEN <<>>
    ELSE JoinWords(SplitWords(StripSuffixes(Lower(name), suffixes), <<>>, <<>>))

---------------------------------------------------------------------------
(***************************************************************************)
(* predict_purpose from its entry (classifier.py lines 133-172), called    *)
(* several times in one process.  frame holds the arguments, the module    *)
(* globals _DATA_LOADED and _CITIES_DF, the dataset load_cities_data()     *)
(* finds on disk, the local nbd_purposes, the number of the running call   *)
(* and the outcome of the call before it.                                  *)
(*                                                                         *)
(* A cell of a dataset row is [kind, val]: kind "nan" for a missing value  *)
(* (an absent column or NaN), "str" or "list" for main_categories and      *)
(* subcategories (val the labels).  purpose is the list [purpose_val], or  *)
(* the empty list for a missing value.  A data frame has a confidence      *)
(* column or not; where it has one every row stores a number.              *)
(***************************************************************************)
MaxRows == 2
MaxCalls == 2

Cell(kind, val) == [kind |-> kind, val |-> val]
NaN == Cell("nan", <<>>)
NoFrame == [kind |-> "none", rows |-> <<>>, confidence_column |-> FALSE]
DataFrame(rows, confidence_column) ==
    [kind |-> "frame", rows |-> rows, confidence_column |-> confidence_column]

DefaultStoredConfidence == Q(8, 10)

c_Bali == <<"B","a","l","i">>
c_Bali_City == <<"B","a","l","i"," "," ","C","i","t","y">>
c_bali_province == <<"b","a","l","i"," ","p","r","o","v","i","n","c","e">>
c_Oslo == <<"O","s","l","o">>
c_Rome == <<"R","o","m","e">>

Row(name, purpose, main_categories, subcategories, confidence) ==
    [name |-> name, purpose |-> purpose, main_categories |-> main_categories,
     subcategories |-> subcategories, confidence |-> confidence]

DatasetRows ==
    { Row(c_Bali, NaN, Cell("list", <<"Beach_Resort", "Leisure">>),
          Cell("list", <<"Island">>), Q(9, 10)),
      Row(c_bali_province, <<"Business trip">>, Cell("str", <<"Leisure">>), NaN, Q(3, 4)),
      Row(c_Bali, <<"Business trip">>, NaN, NaN, Zero),
      Row(c_Bali, <<>>, NaN, Cell("list", <<"Island">>), Zero),
      Row(c_Oslo, <<>>, Cell("list", <<"Business">>), Cell("str", <<"Finance_Hub">>),
          Q(1, 2)),
      Row(c_Oslo, <<"Pilgrimage">>, NaN, NaN, Zero) }

StoredDatasets ==
    {NoFrame} \cup {DataFrame(rows, c) : rows \in SeqsUpTo(DatasetRows, MaxRows),
                                         c \in BOOLEAN}

CityNames == {c_Bali, c_Bali_City, c_Oslo, c_Rome}

\* lines 43-86 of load(), for the two globals predict_purpose reads here
load(f) ==
    IF f.DATA_LOADED THEN f
    ELSE [f EXCEPT !.CITIES_DF = IF f.stored.kind = "none" THEN DataFrame(<<>>, FALSE)
                                 ELSE f.stored,
                   !.DATA_LOADED = TRUE]

\* lines 141-143: the rows whose normalized name is city_norm
Matches(rows, city_norm) ==
    SelectSeq(rows, LAMBDA r : normalize_city_name(Lower(r.name)) = city_norm)

\* lines 157-169: the classification stored in the row
StoredClassification(city_row, confidence_column) ==
    [main |-> city_row.main_categories.val,
     sub |-> IF city_row.subcategories.kind = "list" THEN city_row.subcategories.val
             ELSE <<>>,
     confidence |-> IF confidence_column THEN city_row.confidence
                    ELSE DefaultStoredConfidence]

InitPredict ==
    /\ pc = "enter"
    /\ \E city_name \in CityNames, use_cache \in BOOLEAN, stored \in StoredDatasets :
         frame = [city_name |-> city_name, use_cache |-> use_cache, stored |-> stored,
                  DATA_LOADED |-> FALSE, CITIES_DF |-> NoFrame,
                  nbd_purposes |-> <<>>, call |-> 1, prev |-> Returned(EmptyResult)]
    /\ ret = Returned(EmptyResult)

\* lines 133-139: load() on the first call of the process
EnterPredict ==
    /\ pc = "enter"
    /\ frame' = [load(frame) EXCEPT !.nbd_purposes = <<>>]
    /\ pc' = "lookup"
    /\ UNCHANGED ret

\* lines 136-169: the row of the city, its purpose and its stored classification
LookupDataset ==
    /\ pc = "lookup"
    /\ LET city_norm == normalize_city_name(frame.city_name)
           matches == Matches(frame.CITIES_DF.rows, city_norm)
       IN  IF /\ frame.use_cache
              /\ frame.CITIES_DF.kind # "none"
              /\ Len(frame.CITIES_DF.rows) > 0
              /\ Len(matches) > 0
           THEN LET city_row == matches[1] IN
                IF city_row.main_categories.kind # "nan"
                THEN /\ ret' = Returned(StoredClassification(
                                   city_row, frame.CITIES_DF.confidence_column))
                     /\ frame' = [frame EXCEPT !.nbd_purposes = city_row.purpose]
                     /\ pc' = "returned"
                ELSE /\ frame' = [frame EXCEPT !.nbd_purposes = city_row.purpose]
                     /\ pc' = "harvest"
                     /\ UNCHANGED ret
           ELSE /\ pc' = "harvest"
                /\ UNCHANGED <<frame, ret>>

\* line 172: get_tags_for_city (tags.py lines 29-33) takes city_name, sources
\* and use_cache; the keyword offline_mode is not one of its parameters
CallGetTags ==
    /\ pc = "harvest"
    /\ ret' = Raised("TypeError")
    /\ pc' = "returned"
    /\ UNCHANGED frame

\* the next call of the same process, with the same arguments
NextCall ==
    /\ pc = "returned"
    /\ frame.call < MaxCalls
    /\ frame' = [frame EXCEPT !.call = @ + 1, !.prev = ret]
    /\ pc' = "enter"
    /\ UNCHANGED ret

NextPredict ==
    \/ EnterPredict
    \/ LookupDataset
    \/ CallGetTags
    \/ NextCall

SpecPredict == InitPredict /\ [][NextPredict]_vars

\* C12: every call predict_purpose(city, use_cache=True) returns, and the
\* confidence it returns is a number in [0, 1].
C12_AlwaysReturns ==
    (pc = "returned" /\ frame.use_cache) =>
        /\ ret.raised = ""
        /\ InUnit(ret.value.confidence)

\* C13: the second of two successive calls with the same arguments returns,
\* as the first did, and returns the same main, sub and confidence.
C13_SameResultTwice ==
    (pc = "returned" /\ frame.call >= 2) =>
        /\ frame.prev.raised = ""
        /\ ret.raised = ""
        /\ ret.value.main = frame.prev.value.main
        /\ ret.value.sub = frame.prev.value.sub
        /\ ret.value.confidence = frame.prev.value.confidence

---------------------------------------------------------------------------
(***************************************************************************)
(* Claims about calculate_tag_weights, under SpecWeights.                  *)
(***************************************************************************)
\* empty, or whitespace only
IsBlank(s) == \A i \in 1..Len(s) : s[i] = " "

BlankTag(tag_entry) ==
    LET tag == PyGet(tag_entry.tag, <<>>) IN tag.kind = "str" /\ IsBlank(tag.val)

WithoutBlankTags(tags) == SelectSeq(tags, LAMBDA e : ~BlankTag(e))

\* C14: the map calculate_tag_weights returns has no empty or blank key, and
\* is the map it returns for the list without the records of empty or blank
\* tag text.
C14_BlankDiscarded ==
    (pc = "done" /\ ret.raised = "") =>
        /\ \A k \in KeySet(ret.value) : ~IsBlank(k)
        /\ DictEq(ret.value, calculate_tag_weights(WithoutBlankTags(frame.tags)).value)

\* C15: calculate_tag_weights raises nothing for records whose source or
\* evidence_type is missing, None or unknown, and a lone such record of a
\* non-empty tag with no usable source is kept with the default source
\* weight 0.5 (times the multiplier of its evidence type).
C15_MalformedTolerated ==
    (pc = "done" /\ \A i \in 1..Len(frame.tags) : frame.tags[i].tag.kind # "none") =>
        /\ ret.raised = ""
        /\ (/\ Len(frame.tags) = 1
            /\ frame.tags[1].source.kind \in {"missing", "none"}
            /\ PyGet(frame.tags[1].tag, <<>>).val # <<>>) =>
               ret.value = << <<Lower(frame.tags[1].tag.val),
                                EvidenceBoost(DefaultSourceWeight,
                                              frame.tags[1].evidence_type)>> >>

\* the weight calculate_tag_weights gives the tag of a lone record
WeightOf(tag_entry) == calculate_tag_weights(<<tag_entry>>).value[1][2]

OfType(tag_entry, evidence_type) ==
    [tag_entry EXCEPT !.evidence_type = PyStr(evidence_type)]

\* C16: for a lone record of any source, the weight of its tag is strictly
\* larger with evidence type jsonld than with meta, and strictly larger with
\* meta than with heading.
C16_EvidenceTypeOrder ==
    (pc = "done" /\ Len(frame.tags) = 1 /\ ret.raised = "" /\ ret.value # <<>>) =>
        LET e == frame.tags[1] IN
        /\ ret.value[1][2] = WeightOf(e)
        /\ QLt(WeightOf(OfType(e, t_meta)), WeightOf(OfType(e, t_jsonld)))
        /\ QLt(WeightOf(OfType(e, t_heading)), WeightOf(OfType(e, t_meta)))

\* a lone jsonld record of source UNESCO: 2.0 * 1.2, above 2.0 and 1.6
C16_Witness ==
    /\ pc = "done"
    /\ Len(frame.tags) = 1
    /\ frame.tags[1].evidence_type = PyStr(t_jsonld)
    /\ frame.tags[1].source = PyStr(s_Unesco)
    /\ ret = Returned(<< <<g_spa, Q(12, 5)>> >>)
    /\ WeightOf(OfType(frame.tags[1], t_meta)) = Q(2, 1)
    /\ WeightOf(OfType(frame.tags[1], t_heading)) = Q(8, 5)

---------------------------------------------------------------------------
(***************************************************************************)
(* Claims about aggregate_scores_by_category, under SpecPipeline: the      *)
(* state after line 197 has pc = "merge".                                  *)
(***************************************************************************)
\* min(len(keyword), len(tag)) / max(len(keyword), len(tag))
LengthRatio(keyword, tag) ==
    Q(IF Len(keyword) < Len(tag) THEN Len(keyword) ELSE Len(tag),
      IF Len(keyword) > Len(tag) THEN Len(keyword) ELSE Len(tag))

\* the keywords of the taxonomy that match the tag
MatchingKeywords(tag, tag_mappings) ==
    {k \in UNION {{tag_mappings[i][2].keywords[j] :
                      j \in 1..Len(tag_mappings[i][2].keywords)} :
                  i \in 1..Len(tag_mappings)} : KeywordMatches(k, tag)}

\* C17: for every weighted tag that is matched, the score of the match is
\* the length ratio min/max of a matching keyword of the chosen entry, and no
\* matching keyword of the taxonomy has a higher length ratio.
C17_LengthRatioBest ==
    pc = "merge" =>
        \A n \in 1..Len(frame.tag_weights) :
            LET tag == frame.tag_weights[n][1]
                best == ScanMappings(tag, frame.tag_mappings, NoMatch)
            IN  best.found =>
                  /\ \E j \in 1..Len(best.config.keywords) :
                        /\ KeywordMatches(best.config.keywords[j], tag)
                        /\ LengthRatio(best.config.keywords[j], tag) = best.score
                  /\ \A k \in MatchingKeywords(tag, frame.tag_mappings) :
                        QLe(LengthRatio(k, tag), best.score)

---------------------------------------------------------------------------
\* C18: a call of select_top_labels with a negative threshold or a negative
\* max_labels ends in an exception, not in a returned list (under SpecSelect).
C18_NegativeArgumentsRaise ==
    (pc = "done" /\ (QLt(frame.threshold, Zero) \/ frame.max_labels < 0)) =>
        ret.raised # ""

---------------------------------------------------------------------------
(***************************************************************************)
(* TemporalEngine.apply_seasonal_boost called on its own.                  *)
(***************************************************************************)
n_Summer == <<"S","u","m","m","e","r">>

BoostCategories == {"Beach_Resort", "Nature_Outdoor", "Winter_Sports", "Business"}

BoostValues == {Zero, Q(1, 4), Q(1, 2)}

SeasonArguments ==
    {PyNone, PyStr(n_winter), PyStr(n_summer), PyStr(n_fall), PyStr(n_all), PyStr(n_Summer)}

MonthArguments == {NoMonth, PyInt(0), PyInt(7), PyInt(12), PyInt(13), PyInt(-1)}

InitBoost ==
    /\ pc = "ready"
    /\ frame \in [purposes : Dicts(BoostCategories, BoostValues, MaxScores),
                  season : SeasonArguments,
                  month : MonthArguments]
    /\ ret = Returned(<<>>)

CallBoost ==
    /\ pc = "ready"
    /\ ret' = Returned(apply_seasonal_boost(frame.purposes, frame.season, frame.month))
    /\ pc' = "done"
    /\ UNCHANGED frame

NextBoost == CallBoost

SpecBoost == InitBoost /\ [][NextBoost]_vars

\* C19: called with season None and month None, apply_seasonal_boost returns
\* its input: the same keys with the same values, not renormalized.
C19_IdentityWithoutSeason ==
    (pc = "done" /\ frame.season = PyNone /\ frame.month = NoMonth) =>
        ret.value = frame.purposes

\* an input that sums to 1/2 comes back as it went in
C19_Witness ==
    /\ pc = "done"
    /\ frame.season = PyNone
    /\ frame.month = NoMonth
    /\ frame.purposes = << <<"Beach_Resort", Q(1, 4)>>, <<"Business", Q(1, 4)>> >>
    /\ ret.value = << <<"Beach_Resort", Q(1, 4)>>, <<"Business", Q(1, 4)>> >>

\* the season the call works with (lines 27-28), and whether it boosts at all
UsedSeason ==
    IF frame.month.kind = "int" /\ frame.month.val # 0
    THEN PyStr(get_season(frame.month.val)) ELSE frame.season

Boosting == UsedSeason.kind = "str" /\ UsedSeason.val \notin {<<>>, n_all}

\* the categories of the boost table of the season used
TableCategories == KeySet(DictGet(seasonal_boosts, UsedSeason.val, <<>>))

In(k) == DictGet(frame.purposes, k, Zero)
Out(k) == DictGet(ret.value, k, Zero)

\* C20 as stated: with a season in force no category comes out lower than it
\* went in; a category of the season's table comes out no smaller, any other
\* category comes out with exactly its input value.
C20_NeverLowers ==
    (pc = "done" /\ Boosting) =>
        \A k \in KeySet(frame.purposes) :
            IF k \in TableCategories THEN QLe(In(k), Out(k)) ELSE Out(k) = In(k)

\* C20, amended: with a season in force the result has the keys of the input
\* and sums to 1 when the input has a positive score; no category of the
\* season's table loses against a category outside it (out[c]/out[d] >=
\* in[c]/in[d]), and the categories outside the table keep their proportions.
C20_NeverLowersRelatively ==
    (pc = "done" /\ Boosting) =>
        /\ DictKeys(ret.value) = DictKeys(frame.purposes)
        /\ (\E k \in KeySet(frame.purposes) : QLt(Zero, In(k))) =>
               QSum(DictValues(ret.value)) = One
        /\ \A c, d \in KeySet(frame.purposes) :
              /\ (c \in TableCategories /\ d \notin TableCategories) =>
                     QLe(QMul(In(c), Out(d)), QMul(Out(c), In(d)))
              /\ (c \notin TableCategories /\ d \notin TableCategories) =>
                     QMul(In(c), Out(d)) = QMul(Out(c), In(d))

\* summer: Beach_Resort 1/2 * 1.4 = 7/10 and Business 1/2, divided by 6/5
C20_Witness ==
    /\ pc = "done"
    /\ frame.season = PyStr(n_summer)
    /\ frame.month = NoMonth
    /\ frame.purposes = << <<"Beach_Resort", Q(1, 2)>>, <<"Business", Q(1, 2)>> >>
    /\ ret.value = << <<"Beach_Resort", Q(7, 12)>>, <<"Business", Q(5, 12)>> >>

---------------------------------------------------------------------------
(***************************************************************************)
(* ExplainabilityEngine.decompose_confidence                               *)
(***************************************************************************)
\* lines 16-22: the five components, the penalty negated
Components(source_agreement, ontology_strength, tag_density, authority_weight, ambiguity_penalty) ==
    << <<"source_agreement", source_agreement>>,
       <<"ontology_strength", ontology_strength>>,
       <<"tag_density", tag_density>>,
       <<"authority_weight", authority_weight>>,
       <<"ambiguity_penalty", QNeg(ambiguity_penalty)>> >>

\* line 24: sum(v for v in components.values() if v > 0)
TotalPositive(components) ==
    QSum(SelectSeq(DictValues(components), LAMBDA v : QLt(Zero, v)))

\* lines 24-28 with every component divided, the penalty included
DecomposeAllScaled(source_agreement, ontology_strength, tag_density, authority_weight, ambiguity_penalty) ==
    LET components == Components(source_agreement, ontology_strength, tag_density,
                                 authority_weight, ambiguity_penalty)
        total_positive == TotalPositive(components)
    IN  IF QLt(Zero, total_positive)
        THEN [i \in 1..Len(components) |->
                 <<components[i][1], QDiv(components[i][2], total_positive)>>]
        ELSE components

decompose_confidence(source_agreement, ontology_strength, tag_density, authority_weight, ambiguity_penalty) ==
    LET components == Components(source_agreement, ontology_strength, tag_density,
                                 authority_weight, ambiguity_penalty)
        total_positive == TotalPositive(components)
    IN  IF QLt(Zero, total_positive)
        THEN [i \in 1..Len(components) |->
                 IF QLt(Zero, components[i][2])
                 THEN <<components[i][1], QDiv(components[i][2], total_positive)>>
                 ELSE components[i]]
        ELSE components

\* what the one caller passes (classifier.py lines 238-250): four values in
\* [0, 1] and a penalty of 0.2 times an ambiguity score in [0, 1]
ComponentValues == {Zero, Q(3, 20), Q(1, 2), One}
PenaltyValues == {Zero, Q(1, 10), Q(1, 5)}

InitDecompose ==
    /\ pc = "ready"
    /\ frame \in [source_agreement : ComponentValues, ontology_strength : ComponentValues,
                  tag_density : ComponentValues, authority_weight : ComponentValues,
                  ambiguity_penalty : PenaltyValues]
    /\ ret = Returned(<<>>)

CallDecompose ==
    /\ pc = "ready"
    /\ ret' = Returned(decompose_confidence(frame.source_agreement, frame.ontology_strength,
                                            frame.tag_density, frame.authority_weight,
                                            frame.ambiguity_penalty))
    /\ pc' = "done"
    /\ UNCHANGED frame

NextDecompose == CallDecompose

SpecDecompose == InitDecompose /\ [][NextDecompose]_vars

PositiveNames ==
    <<"source_agreement", "ontology_strength", "tag_density", "authority_weight">>

GivenValue(name) ==
    CASE name = "source_agreement" -> frame.source_agreement
      [] name = "ontology_strength" -> frame.ontology_strength
      [] name = "tag_density" -> frame.tag_density
      [] OTHER -> frame.authority_weight

GivenTotal ==
    QSum([i \in 1..Len(PositiveNames) |-> GivenValue(PositiveNames[i])])

\* C21: for non-negative component values, decompose_confidence returns the
\* five named components; each strictly positive one is its value divided by
\* the total of the positive ones (so these sum to 1), each zero one stays 0,
\* and the ambiguity penalty is the negation of its input, not rescaled.
C21_DecomposeConfidence ==
    pc = "done" =>
        /\ DictKeys(ret.value) = Append(PositiveNames, "ambiguity_penalty")
        /\ \A i \in 1..Len(PositiveNames) :
              LET given == GivenValue(PositiveNames[i]) IN
              IF QLt(Zero, given)
              THEN ret.value[i][2] = QDiv(given, GivenTotal)
              ELSE ret.value[i][2] = Zero
        /\ QLt(Zero, GivenTotal) =>
              QSum([i \in 1..Len(PositiveNames) |-> ret.value[i][2]]) = One
        /\ ret.value[5][2] = QNeg(frame.ambiguity_penalty)

\* positive values that sum to 2, a zero value and a penalty of 0.2
C21_Witness ==
    /\ pc = "done"
    /\ frame = [source_agreement |-> One, ontology_strength |-> Q(1, 2),
                tag_density |-> Zero, authority_weight |-> Q(1, 2),
                ambiguity_penalty |-> Q(1, 5)]
    /\ ret.value = << <<"source_agreement", Q(1, 2)>>, <<"ontology_strength", Q(1, 4)>>,
                      <<"tag_density", Zero>>, <<"authority_weight", Q(1, 4)>>,
                      <<"ambiguity_penalty", Q(-1, 5)>> >>

---------------------------------------------------------------------------
(***************************************************************************)
(* CityFingerprint.cosine_similarity                                       *)
(*                                                                         *)
(* A fingerprint is a dict; only its entry "main_categories" is read.      *)
(* The float returned is dot / (norm1 * norm2) with each norm the square   *)
(* root of a sum of squares: it is kept exactly, as the pair of dot and    *)
(* the product of the two sums of squares, [dot, squares], standing for    *)
(* dot / sqrt(squares).  0.0 is [dot |-> 0, squares |-> 1].                *)
(***************************************************************************)
Cosine(dot, squares) == [dot |-> dot, squares |-> squares]
CosineZero == Cosine(Zero, One)

\* sum over the labels of cats of x[c] * y[c], an absent label counting 0
RECURSIVE DotOver(_, _, _)
DotOver(cats, x, y) ==
    IF cats = {} THEN Zero
    ELSE LET c == CHOOSE c \in cats : TRUE IN
         QAdd(QMul(DictGet(x, c, Zero), DictGet(y, c, Zero)), DotOver(cats \ {c}, x, y))

\* lines 38-49 with the vectors built over the labels of fp1 only
CosineOverFirstKeys(fp1, fp2) ==
    LET cats1 == DictGet(fp1, "main_categories", <<>>)
        cats2 == DictGet(fp2, "main_categories", <<>>)
        all_cats == KeySet(cats1)
        dot == DotOver(all_cats, cats1, cats2)
        squares1 == DotOver(all_cats, cats1, cats1)
        squares2 == DotOver(all_cats, cats2, cats2)
    IN  IF squares1 = Zero \/ squares2 = Zero THEN CosineZero
        ELSE Cosine(dot, QMul(squares1, squares2))

cosine_similarity(fp1, fp2) ==
    LET cats1 == DictGet(fp1, "main_categories", <<>>)
        cats2 == DictGet(fp2, "main_categories", <<>>)
        all_cats == KeySet(cats1) \cup KeySet(cats2)
        dot == DotOver(all_cats, cats1, cats2)
        squares1 == DotOver(all_cats, cats1, cats1)
        squares2 == DotOver(all_cats, cats2, cats2)
    IN  IF squares1 = Zero \/ squares2 = Zero THEN CosineZero
        ELSE Cosine(dot, QMul(squares1, squares2))

MaxCategories == 2

FingerprintLabels == {"Business", "Leisure", "Beach_Resort"}
FingerprintValues == {Zero, Q(1, 2), One}

\* fingerprints with and without the entry main_categories
Fingerprints ==
    {<<>>} \cup
    {<< <<"main_categories", d>> >> :
        d \in Dicts(FingerprintLabels, FingerprintValues, MaxCategories)}

InitCosine ==
    /\ pc = "ready"
    /\ frame \in [fp1 : Fingerprints, fp2 : Fingerprints]
    /\ ret = Returned(CosineZero)

CallCosine ==
    /\ pc = "ready"
    /\ ret' = Returned(cosine_similarity(frame.fp1, frame.fp2))
    /\ pc' = "done"
    /\ UNCHANGED frame

NextCosine == CallCosine

SpecCosine == InitCosine /\ [][NextCosine]_vars

Categories(fp) == DictGet(fp, "main_categories", <<>>)

\* the sum of the squares of all values of a fingerprint
SumOfSquares(fp) ==
    QSum([i \in 1..Len(Categories(fp)) |->
             QMul(Categories(fp)[i][2], Categories(fp)[i][2])])

\* the sum of the products of the values of the labels both fingerprints have
CommonDot(fp1, fp2) ==
    DotOver(KeySet(Categories(fp1)) \cap KeySet(Categories(fp2)),
            Categories(fp1), Categories(fp2))

\* C22: cosine_similarity(fp1, fp2) equals cosine_similarity(fp2, fp1); it is
\* exactly 0 when all values of either fingerprint are 0 or it has none;
\* otherwise every value of either fingerprint counts in its norm, and the
\* dot product has a term for each label, 0 for a label only one side has.
C22_CosineSimilarity ==
    pc = "done" =>
        /\ ret.value = cosine_similarity(frame.fp2, frame.fp1)
        /\ IF SumOfSquares(frame.fp1) = Zero \/ SumOfSquares(frame.fp2) = Zero
           THEN ret.value = CosineZero
           ELSE /\ ret.value.squares = QMul(SumOfSquares(frame.fp1), SumOfSquares(frame.fp2))
                /\ ret.value.dot = CommonDot(frame.fp1, frame.fp2)

\* one common label and one label on each side only: 1/2 over sqrt(5/4 * 5/4)
C22_Witness ==
    /\ pc = "done"
    /\ Categories(frame.fp1) = << <<"Business", One>>, <<"Leisure", Q(1, 2)>> >>
    /\ Categories(frame.fp2) = << <<"Beach_Resort", One>>, <<"Business", Q(1, 2)>> >>
    /\ ret.value = Cosine(Q(1, 2), Q(25, 16))

---------------------------------------------------------------------------
(***************************************************************************)
(* More claims about aggregate_scores_by_category, under SpecPipeline.     *)
(***************************************************************************)
\* the scores line 174 gives the keywords that match the tag
MatchScores(tag, tag_mappings) ==
    {SimilarityScore(k, tag) : k \in MatchingKeywords(tag, tag_mappings)}

\* the highest of them
HighestScore(tag, tag_mappings) ==
    LET S == MatchScores(tag, tag_mappings) \cup {Zero}
    IN  CHOOSE m \in S : \A x \in S : QLe(x, m)

\* the entries that have a keyword matching the tag with the highest score
HighestEntries(tag, tag_mappings) ==
    {i \in 1..Len(tag_mappings) :
        \E j \in 1..Len(tag_mappings[i][2].keywords) :
            /\ KeywordMatches(tag_mappings[i][2].keywords[j], tag)
            /\ SimilarityScore(tag_mappings[i][2].keywords[j], tag)
                  = HighestScore(tag, tag_mappings)}

\* the first of them in the order of the configuration
FirstHighest(tag, tag_mappings) ==
    LET H == HighestEntries(tag, tag_mappings)
    IN  IF HighestScore(tag, tag_mappings) = Zero THEN NoMatch
        ELSE [score |-> HighestScore(tag, tag_mappings), found |-> TRUE,
              config |-> tag_mappings[CHOOSE i \in H : \A k \in H : i <= k][2]]

\* C23: for every weighted tag the entry credited is the first entry, in the
\* order of the configuration, among those whose keyword matches the tag with
\* the highest score; the scores after the aggregation of a single tag are
\* the credit to that entry.
C23_FirstEntryWinsTies ==
    pc = "merge" =>
        /\ \A n \in 1..Len(frame.tag_weights) :
              ScanMappings(frame.tag_weights[n][1], frame.tag_mappings, NoMatch)
                  = FirstHighest(frame.tag_weights[n][1], frame.tag_mappings)
        /\ Len(frame.tag_weights) = 1 =>
              <<frame.main_scores, frame.sub_scores>>
                  = Credit(<< <<>>, <<>> >>, frame.tag_weights[1][2],
                           FirstHighest(frame.tag_weights[1][1], frame.tag_mappings))

\* the tag spa matches "spa" of the first entry and "Spa" of the second with
\* score 1.0 each: the first entry is credited
C23_Witness ==
    /\ pc = "merge"
    /\ frame.tag_weights = << <<g_spa, Q(12, 5)>> >>
    /\ Len(frame.tag_mappings) = 2
    /\ HighestEntries(g_spa, frame.tag_mappings) = {1, 2}
    /\ frame.tag_mappings[1][2].main # frame.tag_mappings[2][2].main
    /\ frame.main_scores = << <<"Medical_Health", Q(12, 5)>> >>
    /\ frame.sub_scores = << <<"Spa_Wellness", Q(12, 5)>> >>

\* the entry chosen for the n-th weighted tag, and the product credited for it
Winner(n) == ScanMappings(frame.tag_weights[n][1], frame.tag_mappings, NoMatch)
Product(n) == QMul(frame.tag_weights[n][2], Winner(n).score)

Matched == {n \in 1..Len(frame.tag_weights) : Winner(n).found}

\* the sum of the products of the matched tags that satisfy Counts
SumOfProducts(Counts(_)) ==
    QSum([n \in 1..Len(frame.tag_weights) |->
             IF n \in Matched /\ Counts(n) THEN Product(n) ELSE Zero])

\* C24: after the aggregation each main category holds the sum of
\* weight * score over the matched tags whose entry declares it as main, and
\* each subcategory the sum of the same undivided products over the matched
\* tags whose entry lists it; no other key exists, so an unmatched tag (or an
\* entry without main) adds nothing.
C24_CreditMainAndSubs ==
    pc = "merge" =>
        /\ KeySet(frame.main_scores)
              = {Winner(n).config.main : n \in Matched} \ {""}
        /\ \A c \in KeySet(frame.main_scores) :
              DictGet(frame.main_scores, c, Zero)
                  = SumOfProducts(LAMBDA n : Winner(n).config.main = c)
        /\ KeySet(frame.sub_scores)
              = UNION {{Winner(n).config.sub[i] : i \in 1..Len(Winner(n).config.sub)} :
                       n \in Matched}
        /\ \A c \in KeySet(frame.sub_scores) :
              DictGet(frame.sub_scores, c, Zero)
                  = SumOfProducts(LAMBDA n : InSeq(c, Winner(n).config.sub))

\* spa is matched by an entry with two subcategories, each credited in full;
\* gym is matched by an entry that declares a subcategory and no main
C24_Witness ==
    /\ pc = "merge"
    /\ frame.tag_weights = << <<g_spa, Q(12, 5)>>, <<g_gym, Q(3, 5)>> >>
    /\ Matched = {1, 2}
    /\ Len(Winner(1).config.sub) = 2
    /\ Winner(2).config.main = ""
    /\ frame.main_scores = << <<"Leisure", Q(12, 5)>> >>
    /\ frame.sub_scores = << <<"Spa_Wellness", Q(12, 5)>>, <<"Beach_Resort", Q(12, 5)>>,
                             <<"Fitness", Q(3, 5)>> >>

---------------------------------------------------------------------------
(***************************************************************************)
(* More claims about merge_nbd_purposes, under SpecMerge.                  *)
(***************************************************************************)
\* the entry a purpose label maps to: its own, or DEFAULT's
EntryOf(purpose) ==
    IF Recognized(purpose)
    THEN PurposeMap[CHOOSE i \in 1..Len(PurposeMap) : PurposeMap[i][1] = purpose][2]
    ELSE DefaultEntry

\* how many times the labels of the list contribute to category c
Contributions(c, purposes, Field(_)) ==
    Cardinality(UNION {{<<i, j>> : j \in {j \in 1..Len(Field(EntryOf(purposes[i]))) :
                                             Field(EntryOf(purposes[i]))[j] = c}} :
                       i \in 1..Len(purposes)})

\* after is before with weight * contributions added per category
Accumulated(before, after, Field(_)) ==
    /\ KeySet(after) = KeySet(before)
          \cup UNION {{Field(EntryOf(frame.nbd_purposes[i]))[j] :
                          j \in 1..Len(Field(EntryOf(frame.nbd_purposes[i])))} :
                      i \in 1..Len(frame.nbd_purposes)}
    /\ \A c \in KeySet(after) :
          DictGet(after, c, Zero)
              = QAdd(DictGet(before, c, Zero),
                     QMul(Q(Contributions(c, frame.nbd_purposes, Field), 1),
                          frame.nbd_weight))

\* C25: merge_nbd_purposes adds the merge weight once per occurrence of a
\* label to each main and each sub category the label maps to: a category
\* ends at its old score (0 when new) plus weight times the number of
\* contributing occurrences, and every other category keeps its score.
C25_MergeAccumulates ==
    pc = "done" =>
        /\ Accumulated(frame.main_scores, ret.value[1], LAMBDA e : e.main)
        /\ Accumulated(frame.sub_scores, ret.value[2], LAMBDA e : e.sub)

\* the same label twice: Business goes from 0.5 to 4.5, Leisure stays at 3.0,
\* Finance_Hub is created at 4.0
C25_Witness ==
    /\ pc = "done"
    /\ frame.nbd_purposes = <<"Business trip", "Business trip">>
    /\ EntryOf("Business trip") = BusinessEntry
    /\ frame.main_scores = << <<"Business", Q(1, 2)>>, <<"Leisure", Q(3, 1)>> >>
    /\ frame.sub_scores = <<>>
    /\ frame.nbd_weight = Q(2, 1)
    /\ ret.value = << << <<"Business", Q(9, 2)>>, <<"Leisure", Q(3, 1)>> >>,
                      << <<"Finance_Hub", Q(4, 1)>> >> >>

---------------------------------------------------------------------------
(***************************************************************************)
(* The order of the steps of predict_purpose, under SpecPipeline.          *)
(***************************************************************************)
\* the raw scores of the call: what line 196 computes from the tag weights
RawScores == aggregate_scores_by_category(frame.tag_weights, frame.tag_mappings)

\* the scores the normalizer is given in a call with external purposes
MergedScores ==
    merge_nbd_purposes(RawScores[1], RawScores[2], frame.nbd_purposes,
                       frame.nbd_mapping, DefaultNbdWeight)

\* C26: in a call with external purposes the only step into normalization is
\* the merge, it is applied to the raw aggregated scores, and the
\* normalization step that follows normalizes the merged main map and the
\* merged sub map each on its own.
C26_MergeBeforeNormalize ==
    [][/\ pc' = "normalize" =>
            /\ pc = "merge"
            /\ <<frame.main_scores, frame.sub_scores>> = RawScores
            /\ frame.nbd_purposes # <<>> =>
                  <<frame'.main_scores, frame'.sub_scores>> = MergedScores
       /\ (pc = "normalize" /\ frame.nbd_purposes # <<>>) =>
            /\ pc' = "boost"
            /\ <<frame.main_scores, frame.sub_scores>> = MergedScores
            /\ frame'.main_scores = normalize_scores(MergedScores[1])
            /\ frame'.sub_scores = normalize_scores(MergedScores[2])]_vars

\* after normalization in a call with the purpose "Business trip" and the tag
\* spa: the merge has put Business and Finance_Hub into the normalized maps
C26_Witness ==
    /\ pc = "boost"
    /\ frame.nbd_purposes = <<"Business trip">>
    /\ frame.tag_weights = << <<g_spa, Q(12, 5)>> >>
    /\ RawScores = << << <<"Leisure", Q(12, 5)>> >>, << <<"Spa_Wellness", Q(12, 5)>> >> >>
    /\ KeySet(frame.main_scores) = {"Leisure", "Business"}
    /\ KeySet(frame.sub_scores) = {"Spa_Wellness", "Finance_Hub"}
    /\ frame.main_scores = normalize_scores(MergedScores[1])
    /\ frame.sub_scores = normalize_scores(MergedScores[2])

\* a month or a season is given (line 210)
TemporalGiven ==
    \/ frame.month.kind = "int" /\ frame.month.val # 0
    \/ frame.season.kind = "str" /\ frame.season.val # <<>>

\* the main scores before normalization: merged when there are purposes
Unnormalized == IF frame.nbd_purposes # <<>> THEN MergedScores[1] ELSE RawScores[1]

\* C27: in a call with a month or a season the main scores the confidence
\* and the selection work with are the boosted scores, normalized: the boost
\* comes first, the normalizer second.
C27_BoostBeforeNormalize ==
    (pc = "confidence" /\ TemporalGiven) =>
        frame.main_scores
            = normalize_scores(apply_seasonal_boost(Unnormalized, frame.season, frame.month))

---------------------------------------------------------------------------
(***************************************************************************)
(* merge_nbd_purposes and apply_seasonal_boost with the dicts as objects.  *)
(*                                                                         *)
(* frame.heap is the sequence of the dict objects that exist; a reference  *)
(* is an index into it.  The caller's maps are the objects the call starts *)
(* with (frame.given keeps their contents at the time of the call);        *)
(* frame.refs holds the local variables that refer to dicts.  ret is the   *)
(* sequence of the references returned.                                    *)
(***************************************************************************)
\* d.copy() without a copy: the same object
AliasOf(heap, ref) == [heap |-> heap, ref |-> ref]

\* d.copy(): a new object with the entries of d
CopyOf(heap, ref) == [heap |-> Append(heap, heap[ref]), ref |-> Len(heap) + 1]

NoArguments ==
    [season |-> PyNone, month |-> NoMonth, nbd_purposes |-> <<>>, nbd_mapping |-> <<>>,
     nbd_weight |-> Zero]

Call(fn, given, arguments) ==
    [fn |-> fn, given |-> given, heap |-> given, refs |-> [i \in 1..Len(given) |-> i],
     arguments |-> arguments]

InitObjects ==
    /\ pc = "enter"
    /\ \/ \E purposes \in Dicts(BoostCategories, BoostValues, MaxLabels),
            season \in SeasonArguments, month \in MonthArguments :
              frame = Call("apply_seasonal_boost", <<purposes>>,
                           [NoArguments EXCEPT !.season = season, !.month = month])
       \/ \E main_scores \in Dicts(MainKeys, MergeValues, MaxLabels),
            sub_scores \in Dicts(SubKeys, MergeValues, MaxLabels),
            nbd_purposes \in SeqsUpTo(PurposeLabels, MaxPurposes),
            nbd_mapping \in NbdMappings, nbd_weight \in MergeWeights :
              frame = Call("merge_nbd_purposes", <<main_scores, sub_scores>>,
                           [NoArguments EXCEPT !.nbd_purposes = nbd_purposes,
                                               !.nbd_mapping = nbd_mapping,
                                               !.nbd_weight = nbd_weight])
    /\ ret = Returned(<<>>)

\* the season of temporal.py lines 27-28
SeasonUsed(arguments) ==
    IF arguments.month.kind = "int" /\ arguments.month.val # 0
    THEN PyStr(get_season(arguments.month.val)) ELSE arguments.season

\* temporal.py lines 27-41: return purposes itself, or boosted = purposes.copy()
BoostEnter ==
    /\ pc = "enter"
    /\ frame.fn = "apply_seasonal_boost"
    /\ LET used == SeasonUsed(frame.arguments) IN
       IF used.kind = "none" \/ used.val = <<>> \/ used.val = n_all
       THEN /\ ret' = Returned(<<frame.refs[1]>>)
            /\ pc' = "done"
            /\ UNCHANGED frame
       ELSE LET copy == CopyOf(frame.heap, frame.refs[1]) IN
            /\ frame' = [frame EXCEPT !.heap = copy.heap, !.refs = <<copy.ref>>]
            /\ pc' = "multiply"
            /\ UNCHANGED ret

\* temporal.py lines 42-45: boosted[category] *= boost, in the object boosted
BoostMultiply ==
    /\ pc = "multiply"
    /\ LET boosted == frame.refs[1]
           boosts == DictGet(seasonal_boosts, SeasonUsed(frame.arguments).val, <<>>)
       IN  frame' = [frame EXCEPT !.heap[boosted] = BoostEach(frame.heap[boosted], boosts)]
    /\ pc' = "renormalize"
    /\ UNCHANGED ret

\* temporal.py lines 48-52: boosted rebound to a new dict when total > 0
BoostRenormalize ==
    /\ pc = "renormalize"
    /\ LET boosted == frame.heap[frame.refs[1]]
           total == QSum(DictValues(boosted))
       IN  IF QLt(Zero, total)
           THEN /\ frame' = [frame EXCEPT
                      !.heap = Append(@, [i \in 1..Len(boosted) |->
                                             <<boosted[i][1], QDiv(boosted[i][2], total)>>]),
                      !.refs = <<Len(frame.heap) + 1>>]
                /\ ret' = Returned(<<Len(frame.heap) + 1>>)
           ELSE /\ ret' = Returned(frame.refs)
                /\ UNCHANGED frame
    /\ pc' = "done"

\* scoring.py lines 213-214: main_scores and sub_scores rebound to copies
MergeEnter ==
    /\ pc = "enter"
    /\ frame.fn = "merge_nbd_purposes"
    /\ LET main == CopyOf(frame.heap, frame.refs[1])
           sub == CopyOf(main.heap, frame.refs[2])
       IN  frame' = [frame EXCEPT !.heap = sub.heap, !.refs = <<main.ref, sub.ref>>]
    /\ pc' = "add"
    /\ UNCHANGED ret

\* scoring.py lines 216-229: the loop adds into the objects main_scores and
\* sub_scores refer to, and both are returned
MergeAdd ==
    /\ pc = "add"
    /\ LET main == frame.refs[1]
           sub == frame.refs[2]
           merged == MergeLoop(<<frame.heap[main], frame.heap[sub]>>,
                               frame.arguments.nbd_purposes,
                               DictGet(frame.arguments.nbd_mapping, "nbd_to_main", <<>>),
                               frame.arguments.nbd_weight)
       IN  frame' = [frame EXCEPT !.heap = [@ EXCEPT ![main] = merged[1], ![sub] = merged[2]]]
    /\ ret' = Returned(frame.refs)
    /\ pc' = "done"

NextObjects ==
    \/ BoostEnter
    \/ BoostMultiply
    \/ BoostRenormalize
    \/ MergeEnter
    \/ MergeAdd

SpecObjects == InitObjects /\ [][NextObjects]_vars

\* the maps a finished call returned
ReturnedMaps == [i \in 1..Len(ret.value) |-> frame.heap[ret.value[i]]]

\* C28: at every point of a call of merge_nbd_purposes or of
\* apply_seasonal_boost the maps the caller passed in hold the keys and values
\* they held when the call began, and the maps returned are the function's
\* result for those maps: every change is in the returned maps only.
C28_CallerMapsUntouched ==
    /\ \A i \in 1..Len(frame.given) : frame.heap[i] = frame.given[i]
    /\ pc = "done" =>
         IF frame.fn = "apply_seasonal_boost"
         THEN ReturnedMaps = <<apply_seasonal_boost(frame.given[1], frame.arguments.season,
                                                    frame.arguments.month)>>
         ELSE ReturnedMaps = merge_nbd_purposes(frame.given[1], frame.given[2],
                                                frame.arguments.nbd_purposes,
                                                frame.arguments.nbd_mapping,
                                                frame.arguments.nbd_weight)

\* a summer boost of Beach_Resort: returned raised, the caller's map as it was
C28_Witness ==
    /\ pc = "done"
    /\ frame.fn = "apply_seasonal_boost"
    /\ frame.arguments.season = PyStr(n_summer)
    /\ frame.given = << << <<"Beach_Resort", Q(1, 2)>>, <<"Business", Q(1, 2)>> >> >>
    /\ frame.heap[1] = frame.given[1]
    /\ ReturnedMaps = << << <<"Beach_Resort", Q(7, 12)>>, <<"Business", Q(5, 12)>> >> >>

---------------------------------------------------------------------------
(***************************************************************************)
(* The month and the season of apply_seasonal_boost, under SpecBoost.      *)
(***************************************************************************)
SeasonNames == {n_winter, n_spring, n_summer, n_fall}

\* C29: months 1..12 each lie in exactly one of the four seasons, three to a
\* season, and every other month maps to "all".  A finished call with a
\* non-zero month returns what the call with season get_season(month) and no
\* month returns, whatever season was passed; with a non-zero month outside
\* 1..12 it returns its input unchanged; with month 0 it returns what the call
\* without a month returns.
C29_MonthOverridesSeason ==
    /\ \A m \in 1..12 :
          /\ Cardinality({i \in 1..Len(SEASONS) : m \in SEASONS[i][2]}) = 1
          /\ get_season(m) \in SeasonNames
    /\ \A s \in SeasonNames : Cardinality({m \in 1..12 : get_season(m) = s}) = 3
    /\ \A m \in (-3..16) \ (1..12) : get_season(m) = n_all
    /\ (pc = "done" /\ frame.month.kind = "int") =>
          IF frame.month.val = 0
          THEN ret.value = apply_seasonal_boost(frame.purposes, frame.season, NoMonth)
          ELSE /\ ret.value = apply_seasonal_boost(frame.purposes,
                                                   PyStr(get_season(frame.month.val)), NoMonth)
               /\ frame.month.val \notin 1..12 => ret.value = frame.purposes

\* July with season "winter": the summer table is used, Beach_Resort rises
C29_Witness ==
    /\ pc = "done"
    /\ frame.month = PyInt(7)
    /\ frame.season = PyStr(n_winter)
    /\ frame.purposes = << <<"Beach_Resort", Q(1, 2)>>, <<"Winter_Sports", Q(1, 2)>> >>
    /\ ret.value = << <<"Beach_Resort", Q(7, 12)>>, <<"Winter_Sports", Q(5, 12)>> >>

---------------------------------------------------------------------------
(***************************************************************************)
(* The public functions of classifier.py called one after another in one   *)
(* process.  frame holds the module globals _DATA_LOADED, _ONTOLOGY,       *)
(* _NBD_MAPPING and _CITIES_DF, the global _TAGS_CACHE of tags.py, the     *)
(* files found on disk, the function being called, the number of calls     *)
(* made and the number of times line 86 of load() was reached.  pc is the  *)
(* statement to run next: "idle" between calls, "load" at the entry of     *)
(* load(), "ontology" to "finish" inside its body, "logic" after the       *)
(* loaded check of the other functions.                                    *)
(*                                                                         *)
(* The contents of the globals are abstracted to what the statements here  *)
(* distinguish: "None", the parsed file "yaml", the dictionary returned    *)
(* when the file cannot be read "default", an empty data frame "empty", a  *)
(* data frame with rows "rows", a filled tags cache "records".             *)
(***************************************************************************)
MaxApiCalls == 3

ApiFunctions ==
    {"load", "predict_purpose", "tags", "search", "get_ontology", "get_available_cities"}

\* what is on disk: a yaml file holding a mapping, an unreadable or missing
\* file, an empty file; no dataset, a dataset, a dataset with a tags column
Disks ==
    [ontology : {"mapping", "unreadable", "empty"},
     mapping_nbd : {"mapping", "unreadable", "empty"},
     cities : {"none", "rows", "tagged"}]

\* io.py lines 30-43 and 53-61: yaml.safe_load of an empty file is None
LoadYaml(file) ==
    CASE file = "mapping" -> "yaml"
      [] file = "unreadable" -> "default"
      [] file = "empty" -> "None"

Globals ==
    <<frame.DATA_LOADED, frame.ONTOLOGY, frame.NBD_MAPPING, frame.CITIES_DF,
      frame.TAGS_CACHE>>

InitApi ==
    /\ pc = "idle"
    /\ \E disk \in Disks :
         frame = [DATA_LOADED |-> FALSE, ONTOLOGY |-> "None", NBD_MAPPING |-> "None",
                  CITIES_DF |-> "None", TAGS_CACHE |-> "None",
                  disk |-> disk, fn |-> "load", calls |-> 0, completed |-> 0]
    /\ ret = Returned("None")

\* the next call of the sequence; the files may have changed since the last.
\* load() starts at line 57, the others at their test of _DATA_LOADED
\* (lines 133, 295, 315, 347, 360)
Invoke ==
    /\ pc = "idle"
    /\ frame.calls < MaxApiCalls
    /\ \E fn \in ApiFunctions, disk \in Disks :
         /\ frame' = [frame EXCEPT !.fn = fn, !.disk = disk, !.calls = @ + 1]
         /\ pc' = IF fn = "load" \/ ~frame.DATA_LOADED THEN "load" ELSE "logic"
    /\ UNCHANGED ret

\* where a finished load() returns to
AfterLoad == IF frame.fn = "load" THEN "idle" ELSE "logic"

\* lines 57-59 with the test of _DATA_LOADED left out
LoadEntryAlways ==
    /\ pc = "load"
    /\ pc' = "ontology"
    /\ UNCHANGED <<frame, ret>>

\* lines 57-59: if _DATA_LOADED: return
LoadEntry ==
    /\ pc = "load"
    /\ IF frame.DATA_LOADED
       THEN /\ pc' = AfterLoad
            /\ ret' = Returned("None")
       ELSE /\ pc' = "ontology"
            /\ UNCHANGED ret
    /\ UNCHANGED frame

\* lines 64-67: _ONTOLOGY = load_ontology(), then _ONTOLOGY.get(...) in the log
LoadOntology ==
    /\ pc = "ontology"
    /\ frame' = [frame EXCEPT !.ONTOLOGY = LoadYaml(frame.disk.ontology)]
    /\ IF LoadYaml(frame.disk.ontology) = "None"
       THEN /\ ret' = Raised("AttributeError")
            /\ pc' = "idle"
       ELSE /\ pc' = "mapping"
            /\ UNCHANGED ret

\* lines 70-73: _NBD_MAPPING = load_nbd_mapping(), then _NBD_MAPPING.get(...)
LoadNbdMapping ==
    /\ pc = "mapping"
    /\ frame' = [frame EXCEPT !.NBD_MAPPING = LoadYaml(frame.disk.mapping_nbd)]
    /\ IF LoadYaml(frame.disk.mapping_nbd) = "None"
       THEN /\ ret' = Raised("AttributeError")
            /\ pc' = "idle"
       ELSE /\ pc' = "cities"
            /\ UNCHANGED ret

\* lines 76-81: _CITIES_DF = load_cities_data(), pd.DataFrame() for None
LoadCities ==
    /\ pc = "cities"
    /\ frame' = [frame EXCEPT !.CITIES_DF = IF frame.disk.cities = "none" THEN "empty"
                                            ELSE "rows"]
    /\ pc' = "cache"
    /\ UNCHANGED ret

\* line 84: load_tags_cache() (tags.py lines 137-159)
LoadTagsCache ==
    /\ pc = "cache"
    /\ frame' = [frame EXCEPT !.TAGS_CACHE = IF frame.disk.cities = "tagged" THEN "records"
                                             ELSE @]
    /\ pc' = "finish"
    /\ UNCHANGED ret

\* lines 86-87: _DATA_LOADED = True, the end of the body
LoadFinish ==
    /\ pc = "finish"
    /\ frame' = [frame EXCEPT !.DATA_LOADED = TRUE, !.completed = @ + 1]
    /\ pc' = AfterLoad
    /\ ret' = Returned("None")

\* lines 136-274: the stored classification of a city of the dataset, or
\* the call of line 172 (see CallGetTags)
ApiPredictPurpose ==
    /\ pc = "logic"
    /\ frame.fn = "predict_purpose"
    /\ \/ frame.CITIES_DF = "rows" /\ ret' = Returned("stored")
       \/ ret' = Raised("TypeError")
    /\ pc' = "idle"
    /\ UNCHANGED frame

\* line 298: get_tags_for_city(city_name, use_cache=use_cache), which reads
\* _TAGS_CACHE (tags.py lines 48-54) and harvests otherwise
ApiTags ==
    /\ pc = "logic"
    /\ frame.fn = "tags"
    /\ \/ frame.TAGS_CACHE = "records" /\ ret' = Returned("records")
       \/ ret' = Returned("harvested")
    /\ pc' = "idle"
    /\ UNCHANGED frame

\* lines 318-337
ApiSearch ==
    /\ pc = "logic"
    /\ frame.fn = "search"
    /\ ret' = Returned(IF frame.CITIES_DF \in {"None", "empty"} THEN "[]" ELSE "matches")
    /\ pc' = "idle"
    /\ UNCHANGED frame

\* line 350: return _ONTOLOGY
ApiGetOntology ==
    /\ pc = "logic"
    /\ frame.fn = "get_ontology"
    /\ ret' = Returned(frame.ONTOLOGY)
    /\ pc' = "idle"
    /\ UNCHANGED frame

\* lines 363-366
ApiGetAvailableCities ==
    /\ pc = "logic"
    /\ frame.fn = "get_available_cities"
    /\ ret' = Returned(IF frame.CITIES_DF \in {"None", "empty"} THEN "[]" ELSE "names")
    /\ pc' = "idle"
    /\ UNCHANGED frame

NextApi ==
    \/ Invoke
    \/ LoadEntry
    \/ LoadOntology
    \/ LoadNbdMapping
    \/ LoadCities
    \/ LoadTagsCache
    \/ LoadFinish
    \/ ApiPredictPurpose
    \/ ApiTags
    \/ ApiSearch
    \/ ApiGetOntology
    \/ ApiGetAvailableCities

SpecApi == InitApi /\ [][NextApi]_vars

\* C30: in every step of every sequence of calls the loading body has reached
\* its end at most once; _DATA_LOADED, once true, stays true; while a call of
\* load() runs with _DATA_LOADED true no global changes; and the statements of
\* the other functions after their loaded check run with _DATA_LOADED true.
C30_LoadOnce ==
    [][/\ frame'.completed <= 1
       /\ frame.DATA_LOADED => frame'.DATA_LOADED
       /\ frame.DATA_LOADED => Globals' = Globals
       /\ pc' = "logic" => frame'.DATA_LOADED
       /\ pc = "logic" => frame.DATA_LOADED]_vars

\* a third call, of load(), that returned with the body completed once before
C30_Witness ==
    /\ pc = "idle"
    /\ frame.calls = 3
    /\ frame.fn = "load"
    /\ frame.DATA_LOADED
    /\ frame.completed = 1
    /\ frame.ONTOLOGY = "default"
    /\ frame.TAGS_CACHE = "records"
    /\ ret = Returned("None")

=============================================================================
